---- MODULE Spec2Model ----
(***************************************************************************)
(* Exported Tests: the test parser (src/parsers/base.ts) and its BDD       *)
(* adapter (src/parsers/BDD.ts).                                           *)
(*                                                                         *)
(* JavaScript values are abstracted by what the code asks of them:         *)
(*   - a field of a node is "absent" (undefined), or present with the      *)
(*     type the code tests for (function, array, string) or another type;  *)
(*   - the value a checkConditions function returns is one of JSValues,    *)
(*     of which Truthy says how an `if` or `||` reads it;                  *)
(*   - a fragment is the sequence of steps that produced it from the root  *)
(*     fragment; an index is a natural number, or NoIndex for undefined.   *)
(***************************************************************************)
EXTENDS Integers, Sequences, FiniteSets, TLC

VARIABLES
    call,       \* classifier harness: the function called and its arguments
    ret,        \* classifier harness: what the call returned or threw
    tests,      \* constructor argument `tests`
    context,    \* constructor argument `wndwFragment`
    window,     \* TestParser.window
    fragment,   \* TestParser.fragment
    status,     \* where the program is: new, parsing, done, failed
    error,      \* the error that ended construction, or "none"
    stack,      \* the JavaScript call stack of the traversal, top last
    groups,     \* the describe blocks currently open (registry positions)
    registry,   \* what has been registered with the BDD framework, in order
    calls,      \* every call of a user function and every dispatch, in order
    run,        \* the framework's execution of the registered tests
    other,      \* a second instance: whose turn it is, and the instance waiting
    heap        \* bindFunctions harness: a class, its instances, their properties

vars == <<call, ret, tests, context, window, fragment, status, error,
          stack, groups, registry, calls, run, other, heap>>

(***************************************************************************)
(* Bounds of the model.                                                    *)
(***************************************************************************)
\* the longest array a getFragmentSet function returns
MaxFrags == 2

\* `index` when it is undefined
NoIndex == 0 - 1

----------------------------------------------------------------------------
(***************************************************************************)
(* JavaScript values.                                                      *)
(***************************************************************************)
JSValues == {"true", "false", "zero", "one", "emptyString", "string",
             "null", "undefined", "NaN", "object"}

\* ToBoolean
Truthy(v) == v \in {"true", "one", "string", "object"}

\* what a thrown error is: its kind and where it was thrown
Thrown(kind, msg) == [ok |-> FALSE, kind |-> kind, msg |-> msg, val |-> "none"]
Returned(v) == [ok |-> TRUE, kind |-> "none", msg |-> "none", val |-> v]

\* fragments: a root fragment (the window's document, the DocumentFragment
\* given, or the content of the template made from the element given), then
\* what getSubFragment / getFragmentSet of the node at `path` made of it
FragStep(op, path, i) == [op |-> op, path |-> path, i |-> i]
RootFragment(kind) == <<FragStep(kind, <<>>, NoIndex)>>
SubFragmentOf(path, frag) == Append(frag, FragStep("getSubFragment", path, NoIndex))
SetFragmentOf(path, frag, i) == Append(frag, FragStep("getFragmentSet", path, i))

----------------------------------------------------------------------------
(***************************************************************************)
(* The classifier: TestParser's static functions.                          *)
(***************************************************************************)

\* `if (test.tests)` reads the truthiness of the field: an absent field and a
\* falsy value (null, 0, '', false) both fall through to the name check
isSuite(test) ==
    IF test.tests \in {"array", "nonarray"}
    THEN IF test.tests # "array"
         THEN Thrown("FormatError", "Test suites must include an array of tests")
         ELSE Returned(TRUE)
    ELSE IF test.name = "string"
         THEN Returned(FALSE)
         ELSE Thrown("FormatError", "missing an name")

\* faulty variant: inheritance is checked before the fragment set
getTestTypeInheritFirst(test) ==
    IF test.inheritedTests = "array" THEN "inherit"
    ELSE IF test.getFragmentSet = "function" THEN "set"
    ELSE "default"

getTestType(test) ==
    IF test.getFragmentSet = "function" THEN "set"
    ELSE IF test.inheritedTests = "array" THEN "inherit"
    ELSE "default"

\* a call of a user function, as recorded in `calls`
\* (result: what the function returned)
HookCall(fn, path, frag, wndw, idx, result) ==
    [fn |-> fn, path |-> path, frag |-> frag, wndw |-> wndw, idx |-> idx,
     arg4 |-> "none", result |-> result]

\* faulty variant: getSubFragment is applied to nothing and the parent is returned
getFragmentIgnoresSub(test, path, frag) ==
    [val |-> frag, calls |-> <<>>]

\* getFragment(test, fragment): the fragment and the calls it made
getFragment(test, path, frag) ==
    IF test.getSubFragment = "function"
    THEN [val   |-> SubFragmentOf(path, frag),
          calls |-> <<HookCall("getSubFragment", path, frag, "none", NoIndex,
                               SubFragmentOf(path, frag))>>]
    ELSE [val |-> frag, calls |-> <<>>]

(***************************************************************************)
(* checkConditions functions.  A function is described by the value it     *)
(* returns and by whether it returns it for index 0 only (the fixtures'    *)
(* `index % 3 === 0`), returning false for any other index.                *)
(***************************************************************************)
NoConditions == [type |-> "undefined", returns |-> "undefined", index0Only |-> FALSE]
Conditions(v, only0) == [type |-> "function", returns |-> v, index0Only |-> only0]

ApplyConditions(conditions, frag, wndw, idx) ==
    IF conditions.index0Only /\ idx # 0 THEN "false" ELSE conditions.returns

\* faulty variant: the conditions are called and what they return is ignored
doParseTestIgnoresResult(conditions, path, frag, wndw, idx) ==
    IF conditions.type = "undefined"
    THEN [val |-> "true", calls |-> <<>>]
    ELSE [val   |-> "true",
          calls |-> <<HookCall("checkConditions", path, frag, wndw, idx,
                               ApplyConditions(conditions, frag, wndw, idx))>>]

\* doParseTest(conditions, fragment, index) on an instance whose window is wndw
doParseTest(conditions, path, frag, wndw, idx) ==
    IF conditions.type = "undefined"
    THEN [val |-> "true", calls |-> <<>>]
    ELSE [val   |-> ApplyConditions(conditions, frag, wndw, idx),
          calls |-> <<HookCall("checkConditions", path, frag, wndw, idx,
                               ApplyConditions(conditions, frag, wndw, idx))>>]

----------------------------------------------------------------------------
(***************************************************************************)
(* The constructor's reading of its context argument.  A context is        *)
(* described by the three things the constructor reads of it.              *)
(***************************************************************************)
Contexts ==
    [selfWindow : BOOLEAN,      \* wndwFragment.window === wndwFragment
     document   : BOOLEAN,      \* wndwFragment.document is truthy
     nodeType   : {"none", "ELEMENT_NODE", "DOCUMENT_FRAGMENT_NODE", "TEXT_NODE"}]

IsWindowLike(ctx) == ctx.selfWindow /\ ctx.document

\* faulty variant: anything with a nodeType is taken for an element
resolveContextAnyNode(ctx) ==
    IF IsWindowLike(ctx)
    THEN [ok |-> TRUE, window |-> "window", fragment |-> RootFragment("document")]
    ELSE IF ctx.nodeType = "DOCUMENT_FRAGMENT_NODE"
    THEN [ok |-> TRUE, window |-> "null", fragment |-> RootFragment("fragment")]
    ELSE IF ctx.nodeType # "none"
    THEN [ok |-> TRUE, window |-> "null", fragment |-> RootFragment("template")]
    ELSE [ok |-> FALSE, window |-> "null", fragment |-> <<>>]

\* faulty variant: only the page's global window is taken for a window
resolveContextGlobalOnly(ctx) ==
    IF IsWindowLike(ctx) /\ ctx.global
    THEN [ok |-> TRUE, window |-> "window", fragment |-> RootFragment("document")]
    ELSE IF ctx.nodeType = "DOCUMENT_FRAGMENT_NODE"
    THEN [ok |-> TRUE, window |-> "null", fragment |-> RootFragment("fragment")]
    ELSE IF ctx.nodeType = "ELEMENT_NODE"
    THEN [ok |-> TRUE, window |-> "null", fragment |-> RootFragment("template")]
    ELSE [ok |-> FALSE, window |-> "null", fragment |-> <<>>]

\* the constructor's if / else if chain: the fields it assigns, or its throw
resolveContext(ctx) ==
    IF IsWindowLike(ctx)
    THEN [ok |-> TRUE, window |-> "window", fragment |-> RootFragment("document")]
    ELSE IF ctx.nodeType = "DOCUMENT_FRAGMENT_NODE"
    THEN [ok |-> TRUE, window |-> "null", fragment |-> RootFragment("fragment")]
    ELSE IF ctx.nodeType = "ELEMENT_NODE"
    THEN [ok |-> TRUE, window |-> "null", fragment |-> RootFragment("template")]
    ELSE [ok |-> FALSE, window |-> "null", fragment |-> <<>>]

ContextError ==
    [kind |-> "ContextError",
     msg  |-> "Exported Tests require a Window object, DocumentFragment, or HTML element"]
NoError == [kind |-> "none", msg |-> "none"]

----------------------------------------------------------------------------
(***************************************************************************)
(* What the traversal registers with the BDD framework, and what it calls. *)
(* A describe block is named by the node it was opened for and, for a      *)
(* `Set index: i` block, by i.                                             *)
(***************************************************************************)
Group(path, set) == [path |-> path, set |-> set]

\* an entry of `registry`: describe / beforeAll / beforeEach / afterAll /
\* afterEach / it, the open describe blocks it was registered in, and the
\* fragment, window and index its callback has captured
Reg(kind, path, set, grp, frag, wndw, idx) ==
    [kind |-> kind, path |-> path, set |-> set, group |-> grp,
     frag |-> frag, wndw |-> wndw, idx |-> idx]

\* a dispatch recorded in `calls`: fn(node at path, frag, idx, arg4)
DispatchCall(fn, path, frag, idx, arg4) ==
    [fn |-> fn, path |-> path, frag |-> frag, wndw |-> "none", idx |-> idx,
     arg4 |-> arg4, result |-> "none"]

HooksOf(test, names) ==
    SelectSeq(names, LAMBDA h : h \in test.hooks)

\* suiteSetup(test, fragment): before(All), then beforeEach
suiteSetup(test, path, frag, wndw, grp) ==
    LET hs == HooksOf(test, <<"beforeAll", "beforeEach">>)
    IN  [k \in 1 .. Len(hs) |-> Reg(hs[k], path, NoIndex, grp, frag, wndw, NoIndex)]

\* suiteCleanup(test, fragment): after(All), then afterEach
suiteCleanup(test, path, frag, wndw, grp) ==
    LET hs == HooksOf(test, <<"afterAll", "afterEach">>)
    IN  [k \in 1 .. Len(hs) |-> Reg(hs[k], path, NoIndex, grp, frag, wndw, NoIndex)]

FormatError(msg) == [kind |-> "FormatError", msg |-> msg]
TypeError(msg) == [kind |-> "TypeError", msg |-> msg]

\* what an operation did: the calls it made, what it registered, its throw
Effect(cs, regs, err) == [calls |-> cs, regs |-> regs, err |-> err]

\* faulty variant: the test is registered whatever its format
createTestUnchecked(test, path, frag, idx, wndw, grp) ==
    Effect(<<DispatchCall("createTest", path, frag, idx, "none")>>,
           <<Reg("it", path, NoIndex, grp, frag, wndw, idx)>>, NoError)

\* faulty variant: the callback of `it` does not capture the window
createTestNoWindow(test, path, frag, idx, wndw, grp) ==
    IF \/ test.getActual # "function"
       \/ test.runComparison # "function"
       \/ test.name # "string"
    THEN Effect(<<DispatchCall("createTest", path, frag, idx, "none")>>, <<>>,
                FormatError("Invalid Exported Tests test format"))
    ELSE Effect(<<DispatchCall("createTest", path, frag, idx, "none")>>,
                <<Reg("it", path, NoIndex, grp, frag, "null", idx)>>, NoError)

\* BDDTestParser.createTest
createTest(test, path, frag, idx, wndw, grp) ==
    IF \/ test.getActual # "function"
       \/ test.runComparison # "function"
       \/ test.name # "string"
    THEN Effect(<<DispatchCall("createTest", path, frag, idx, "none")>>, <<>>,
                FormatError("Invalid Exported Tests test format"))
    ELSE Effect(<<DispatchCall("createTest", path, frag, idx, "none")>>,
                <<Reg("it", path, NoIndex, grp, frag, wndw, idx)>>, NoError)

\* faulty variant: the test is created whatever checkConditions returns
getTestUngated(test, path, frag, idx, wndw, grp) ==
    LET gate == doParseTest(test.checkConditions, path, frag, wndw, idx)
        made == createTest(test, path, frag, idx, wndw, grp)
    IN  Effect(gate.calls \o made.calls, made.regs, made.err)

\* faulty variant: the format of the test is checked before its conditions
getTestValidatesFirst(test, path, frag, idx, wndw, grp) ==
    LET gate == doParseTest(test.checkConditions, path, frag, wndw, idx)
        made == createTest(test, path, frag, idx, wndw, grp)
    IN  IF made.err # NoError
        THEN Effect(made.calls, <<>>, made.err)
        ELSE IF Truthy(gate.val)
        THEN Effect(gate.calls \o made.calls, made.regs, made.err)
        ELSE Effect(gate.calls, <<>>, NoError)

\* TestParser.getTest
getTest(test, path, frag, idx, wndw, grp) ==
    LET gate == doParseTest(test.checkConditions, path, frag, wndw, idx)
        made == createTest(test, path, frag, idx, wndw, grp)
    IN  IF Truthy(gate.val)
        THEN Effect(gate.calls \o made.calls, made.regs, made.err)
        ELSE Effect(gate.calls, <<>>, NoError)

\* faulty variant: setup and cleanup are left out whatever the fourth argument
includeSetupCleanupNever(arg4) == FALSE

\* createSuite's fourth parameter, `includeSetupCleanup = true`: parser
\* passes this.createSuite (a function), createFragmentSuite passes false
includeSetupCleanup(arg4) == arg4 # "false"

\* test.getFragmentSet(fragment): the array returned
getFragmentSet(test, path, frag) ==
    [k \in 1 .. test.nfrags |-> SetFragmentOf(path, frag, k - 1)]

\* faulty variant: the per-fragment function is given a one-based index
testFunctionArgsOneBased(test, path, frag, frags, k) ==
    [frag |-> frags[k], idx |-> k, arg4 |-> "false"]

\* faulty variant: the per-fragment function is not told to leave setup and cleanup out
testFunctionArgsNoFlag(test, path, frag, frags, k) ==
    [frag |-> frags[k], idx |-> k - 1, arg4 |-> "none"]

\* faulty variant: the per-fragment function is given the fragment of the set
testFunctionArgsParentFragment(test, path, frag, frags, k) ==
    [frag |-> frag, idx |-> k - 1, arg4 |-> "false"]

\* createFragmentSuite's forEach: testFunction(test, frag, i, false) for the
\* k-th element (i = k - 1) of the array
testFunctionArgs(test, path, frag, frags, k) ==
    [frag |-> frags[k], idx |-> k - 1, arg4 |-> "false"]

\* faulty variant: getSubFragment is applied again to the fragment given
inheritedParserArgsResolveAgain(test, path, frag, idx) ==
    [type |-> test.inheritedTests, items |-> test.inherited,
     frag |-> getFragment(test, path, frag).val, idx |-> idx]

\* faulty variant: the inherited tests are parsed without the index
inheritedParserArgsNoIndex(test, path, frag, idx) ==
    [type |-> test.inheritedTests, items |-> test.inherited, frag |-> frag,
     idx |-> NoIndex]

\* createInheritedSuite: this.parser(test.inheritedTests, fragment, index)
inheritedParserArgs(test, path, frag, idx) ==
    [type |-> test.inheritedTests, items |-> test.inherited, frag |-> frag,
     idx |-> idx]

----------------------------------------------------------------------------
(***************************************************************************)
(* The framework runs the registered tests, one after the other in the     *)
(* order of their registration, once the file that constructed the parser  *)
(* has been loaded.  The callback createTest gave to `it` is               *)
(*     () => exportedTest.getActual(fragment, wndw, index)                 *)
(*                       .then(exportedTest.runComparison)                 *)
(* What getActual and runComparison do is the test developer's: getActual  *)
(* returns a promise or throws, the promise resolves with a value or       *)
(* rejects, runComparison returns or throws an assertion.                  *)
(***************************************************************************)
NotRunning == [pos |-> 0, phase |-> "idle", value |-> "none", log |-> <<>>]

\* the fields of an instance, and what it has called and registered
Instance(ctx, wndw, frag, st, err, stk, grps, reg, cls) ==
    [context |-> ctx, window |-> wndw, fragment |-> frag, status |-> st,
     error |-> err, stack |-> stk, groups |-> grps, registry |-> reg,
     calls |-> cls]

\* the names a class can hand to bindFunctions (the fixture's methods)
Names == {"myStaticMethod", "myInstanceMethod"}

\* a class whose constructor calls bindFunctions(functionObj, this,
\* bindToConstructor), its instances in order of construction (their
\* instanceProperty, and for each name the instance the own property of that
\* name is bound to, 0: no such property), and the properties of the
\* constructor
Heap(functionObj, toConstructor, props, own, ctor) ==
    [functionObj |-> functionObj, toConstructor |-> toConstructor,
     props |-> props, own |-> own, ctor |-> ctor]

NoHeap == Heap({}, {}, <<>>, <<>>, [n \in Names |-> 0])

\* no second instance: the first has the turn, its operations are its own
NoOther ==
    [turn |-> "first", this |-> 1, when |-> "none",
     inst |-> Instance("none", "null", <<>>, "none", NoError, <<>>, <<>>, <<>>, <<>>)]

\* an entry of run.log: a call made for the test registered at position j,
\* the settling of its promise, or its end
RunEntry(fn, j, frag, wndw, idx, arg, out) ==
    [fn |-> fn, test |-> j, frag |-> frag, wndw |-> wndw, idx |-> idx,
     arg |-> arg, out |-> out]

Finished(j, out) == RunEntry("finished", j, <<>>, "none", NoIndex, "none", out)

\* the values a promise returned by getActual resolves with
ActualValues == {"actualA", "actualB"}

\* faulty variant: getActual is not given the index
getActualArgsNoIndex(reg) ==
    [frag |-> reg.frag, wndw |-> reg.wndw, idx |-> NoIndex]

\* getActual(fragment, wndw, index): what the callback of `it` has captured
getActualArgs(reg) ==
    [frag |-> reg.frag, wndw |-> reg.wndw, idx |-> reg.idx]

\* promise.then(runComparison): runComparison is called iff the promise resolves
thenCalls(out) == out # "rejected"

\* faulty variant: a test that fails ends the run
phaseAfterAbortOnFailure(out) ==
    IF out = "promise" THEN "pending"
    ELSE IF out \in ActualValues THEN "resolved"
    ELSE IF out \in {"throws", "rejected"} THEN "aborted"
    ELSE "idle"

\* where the callback of `it` is after an outcome: waiting for the promise
\* of getActual, about to call runComparison, or over (the promise it
\* returned to the framework has settled, or it has thrown)
phaseAfter(out) ==
    IF out = "promise" THEN "pending"
    ELSE IF out \in ActualValues THEN "resolved"
    ELSE "idle"

\* the callbacks the framework calls: the hooks and the tests
IsCallback(reg) == reg.kind \in {"beforeAll", "beforeEach", "afterAll", "afterEach", "it"}

\* the next callback after position pos of the registry
IsNextCallback(j, pos) ==
    /\ j \in DOMAIN registry
    /\ j > pos
    /\ IsCallback(registry[j])
    /\ \A x \in (pos + 1) .. (j - 1) : ~IsCallback(registry[x])

\* test.beforeAll(done, fragment, wndw), and likewise the three other hooks
hookArgs(reg) == [frag |-> reg.frag, wndw |-> reg.wndw]

\* the framework calls the callback of the next test
RunTest ==
    /\ status = "done"
    /\ run.phase = "idle"
    /\ \E j \in DOMAIN registry, out \in {"promise", "throws"} :
          /\ IsNextCallback(j, run.pos)
          /\ registry[j].kind = "it"
          /\ LET a == getActualArgs(registry[j])
                 e == RunEntry("getActual", j, a.frag, a.wndw, a.idx, "none", out)
             IN  run' = [pos   |-> j,
                         phase |-> phaseAfter(out),
                         value |-> "none",
                         log   |-> IF out = "promise"
                                   THEN Append(run.log, e)
                                   ELSE run.log \o <<e, Finished(j, "failed")>>]
    /\ UNCHANGED <<heap, other, call, ret, tests, context, window, fragment, status, error,
                   stack, groups, registry, calls>>

\* the promise getActual returned resolves or rejects
ActualSettles ==
    /\ run.phase = "pending"
    /\ \E out \in ActualValues \cup {"rejected"} :
          LET e == RunEntry("settled", run.pos, <<>>, "none", NoIndex, "none", out)
          IN  run' = IF thenCalls(out)
                     THEN [run EXCEPT !.phase = phaseAfter(out), !.value = out,
                                      !.log = Append(@, e)]
                     ELSE [run EXCEPT !.phase = phaseAfter(out),
                                      !.log = @ \o <<e, Finished(run.pos, "failed")>>]
    /\ UNCHANGED <<heap, other, call, ret, tests, context, window, fragment, status, error,
                   stack, groups, registry, calls>>

\* the `then` callback: runComparison(actual)
RunComparison ==
    /\ run.phase = "resolved"
    /\ \E out \in {"returns", "throws"} :
          LET e == RunEntry("runComparison", run.pos, <<>>, "none", NoIndex,
                            run.value, out)
          IN  run' = [run EXCEPT
                         !.phase = phaseAfter(out), !.value = "none",
                         !.log = @ \o <<e, Finished(run.pos,
                                     IF out = "returns" THEN "passed" ELSE "failed")>>]
    /\ UNCHANGED <<heap, other, call, ret, tests, context, window, fragment, status, error,
                   stack, groups, registry, calls>>

\* the framework calls the callback of the next hook.  (A beforeEach or
\* afterEach callback is called again for every test of its block, with the
\* same arguments: the model calls it once, at its place in the registry.)
RunHook ==
    /\ status = "done"
    /\ run.phase = "idle"
    /\ \E j \in DOMAIN registry :
          /\ IsNextCallback(j, run.pos)
          /\ registry[j].kind # "it"
          /\ LET a == hookArgs(registry[j])
             IN  run' = [run EXCEPT
                            !.pos = j,
                            !.log = Append(@, RunEntry(registry[j].kind, j, a.frag,
                                                       a.wndw, NoIndex, "done", "called"))]
    /\ UNCHANGED <<heap, other, call, ret, tests, context, window, fragment, status, error,
                   stack, groups, registry, calls>>

----------------------------------------------------------------------------
(***************************************************************************)
(* The classifier harness: one call of a static function, of doParseTest   *)
(* or of createTest on an instance constructed with an empty array of      *)
(* tests, after which the framework runs what the call registered.         *)
(***************************************************************************)
ShapeNodes ==
    [name           : {"absent", "nonstring", "string"},
     tests          : {"absent", "falsy", "nonarray", "array"},
     getFragmentSet : {"absent", "nonfunction", "function"},
     inheritedTests : {"absent", "nonarray", "array"},
     getSubFragment : {"absent", "nonfunction", "function"}]

\* the fields createTest reads
TestShapes ==
    [name          : {"absent", "nonstring", "string"},
     getActual     : {"absent", "nonfunction", "function"},
     runComparison : {"absent", "nonfunction", "function"}]

AllConditions ==
    {NoConditions} \cup {Conditions(v, o) : v \in JSValues, o \in BOOLEAN}

NoCall == [fn |-> "none"]
EmptyTests == [type |-> "array", items |-> <<>>]

InitClassifier ==
    /\ call = NoCall
    /\ ret = NoCall
    /\ tests = EmptyTests
    /\ context \in {ctx \in Contexts : resolveContext(ctx).ok}
    /\ window = resolveContext(context).window
    /\ fragment = resolveContext(context).fragment
    /\ status = "done"
    /\ error = NoError
    /\ stack = <<>>
    /\ groups = <<>>
    /\ registry = <<>>
    /\ calls = <<>>
    /\ run = NotRunning
    /\ other = NoOther
    /\ heap = NoHeap

HarnessFragments == {fragment, SetFragmentOf(<<>>, fragment, 1)}
HarnessIndexes == {NoIndex} \cup (0 .. MaxFrags - 1)

CallIsSuite ==
    /\ call = NoCall
    /\ \E node \in ShapeNodes :
          /\ call' = [fn |-> "isSuite", node |-> node]
          /\ ret' = isSuite(node)
    /\ UNCHANGED <<heap, other, run, tests, context, window, fragment, status, error, stack,
                   groups, registry, calls>>

CallGetTestType ==
    /\ call = NoCall
    /\ \E node \in ShapeNodes :
          /\ call' = [fn |-> "getTestType", node |-> node]
          /\ ret' = Returned(getTestType(node))
    /\ UNCHANGED <<heap, other, run, tests, context, window, fragment, status, error, stack,
                   groups, registry, calls>>

CallGetFragment ==
    /\ call = NoCall
    /\ \E node \in ShapeNodes, frag \in HarnessFragments :
          /\ call' = [fn |-> "getFragment", node |-> node, frag |-> frag]
          /\ ret' = Returned(getFragment(node, <<>>, frag).val)
          /\ calls' = calls \o getFragment(node, <<>>, frag).calls
    /\ UNCHANGED <<heap, other, run, tests, context, window, fragment, status, error, stack,
                   groups, registry>>

CallDoParseTest ==
    /\ call = NoCall
    /\ \E conditions \in AllConditions, frag \in HarnessFragments,
          idx \in HarnessIndexes :
          /\ call' = [fn |-> "doParseTest", conditions |-> conditions,
                      frag |-> frag, idx |-> idx]
          /\ ret' = Returned(doParseTest(conditions, <<>>, frag, window, idx).val)
          /\ calls' = calls \o doParseTest(conditions, <<>>, frag, window, idx).calls
    /\ UNCHANGED <<heap, other, run, tests, context, window, fragment, status, error, stack,
                   groups, registry>>

CallCreateTest ==
    /\ call = NoCall
    /\ \E node \in TestShapes, frag \in HarnessFragments, idx \in HarnessIndexes :
          LET e == createTest(node, <<1>>, frag, idx, window, groups)
          IN  /\ call' = [fn |-> "createTest", node |-> node, frag |-> frag,
                          idx |-> idx]
              /\ ret' = IF e.err = NoError THEN Returned("undefined")
                        ELSE Thrown(e.err.kind, e.err.msg)
              /\ registry' = registry \o e.regs
              /\ calls' = calls \o e.calls
    /\ UNCHANGED <<heap, other, run, tests, context, window, fragment, status, error, stack,
                   groups>>

NextClassifier ==
    \/ CallIsSuite
    \/ CallGetTestType
    \/ CallGetFragment
    \/ CallDoParseTest
    \/ CallCreateTest
    \/ RunTest
    \/ ActualSettles
    \/ RunComparison

SpecClassifier == InitClassifier /\ [][NextClassifier]_vars

(***************************************************************************)
(* C1: isSuite returns true for every node whose `tests` is an array,      *)
(* false for every node with a string `name` and no `tests`, and throws    *)
(* for every other node shape.                                             *)
(***************************************************************************)
C1_IsSuiteByShape ==
    call.fn = "isSuite" =>
        IF call.node.tests = "array" THEN ret = Returned(TRUE)
        ELSE IF call.node.tests = "absent" /\ call.node.name = "string"
        THEN ret = Returned(FALSE)
        ELSE ~ret.ok

(***************************************************************************)
(* C2: isSuite returns true iff `tests` is present; a `tests` that is      *)
(* present and not an array fails with 'Test suites must include an array  *)
(* of tests'; with `tests` absent it returns false iff `name` is a string  *)
(* and otherwise fails with the 'missing a name' error.                    *)
(***************************************************************************)
C2_IsSuiteErrors ==
    call.fn = "isSuite" =>
        IF call.node.tests = "array" THEN ret = Returned(TRUE)
        ELSE IF call.node.tests # "absent"
        THEN ret = Thrown("FormatError", "Test suites must include an array of tests")
        ELSE IF call.node.name = "string" THEN ret = Returned(FALSE)
        ELSE ret = Thrown("FormatError", "missing an name")

(***************************************************************************)
(* C3: getTestType returns `set` whenever getFragmentSet is callable,      *)
(* whatever the other fields; otherwise `inherit` iff inheritedTests is an *)
(* array; otherwise `default`.  It never throws.                           *)
(***************************************************************************)
C3_GetTestType ==
    call.fn = "getTestType" =>
        /\ ret.ok
        /\ ret.val \in {"set", "inherit", "default"}
        /\ (call.node.getFragmentSet = "function" => ret.val = "set")
        /\ (call.node.getFragmentSet # "function" =>
               (ret.val = "inherit" <=> call.node.inheritedTests = "array"))
        /\ (ret.val = "default" <=>
               /\ call.node.getFragmentSet # "function"
               /\ call.node.inheritedTests # "array")

C3_Witness ==
    /\ call.fn = "getTestType"
    /\ call.node.getFragmentSet = "function"
    /\ call.node.inheritedTests = "array"
    /\ ret.val = "set"

(***************************************************************************)
(* C4: getFragment returns what getSubFragment makes of the parent         *)
(* fragment, calling it exactly once with the parent fragment, when        *)
(* getSubFragment is callable; in every other case it calls nothing and    *)
(* returns the parent fragment itself.                                     *)
(***************************************************************************)
C4_GetFragment ==
    call.fn = "getFragment" =>
        IF call.node.getSubFragment = "function"
        THEN /\ Len(calls) = 1
             /\ calls[1].fn = "getSubFragment"
             /\ calls[1].frag = call.frag
             /\ ret = Returned(SubFragmentOf(<<>>, call.frag))
        ELSE /\ calls = <<>>
             /\ ret = Returned(call.frag)

C4_Witness ==
    /\ call.fn = "getFragment"
    /\ call.node.getSubFragment = "function"
    /\ Len(calls) = 1
    /\ ret.val # call.frag

(***************************************************************************)
(* C5: doParseTest returns true, calling nothing, when conditions is       *)
(* undefined; otherwise it calls conditions exactly once with (fragment,   *)
(* the instance's window, index) and its result has the truthiness of      *)
(* what that call returned.                                                *)
(***************************************************************************)
C5_DoParseTest ==
    call.fn = "doParseTest" =>
        IF call.conditions.type = "undefined"
        THEN ret = Returned("true") /\ calls = <<>>
        ELSE /\ Len(calls) = 1
             /\ calls[1].fn = "checkConditions"
             /\ calls[1].frag = call.frag
             /\ calls[1].wndw = window
             /\ calls[1].idx = call.idx
             /\ ret.ok
             /\ Truthy(ret.val) = Truthy(calls[1].result)

C5_Witness ==
    /\ call.fn = "doParseTest"
    /\ call.conditions.type = "function"
    /\ Len(calls) = 1
    /\ calls[1].result = "zero"
    /\ ~Truthy(ret.val)

(***************************************************************************)
(* C12: createTest fails with the FormatError 'Invalid Exported Tests test *)
(* format' whenever getActual is not a function, or runComparison is not a *)
(* function, or name is not a string; nothing is then registered with the  *)
(* framework (`it` is not called), so that neither getActual nor           *)
(* runComparison is ever invoked.  In every other case it registers one    *)
(* test.                                                                   *)
(***************************************************************************)
C12_CreateTestFormat ==
    call.fn = "createTest" =>
        IF \/ call.node.getActual # "function"
           \/ call.node.runComparison # "function"
           \/ call.node.name # "string"
        THEN /\ ret = Thrown("FormatError", "Invalid Exported Tests test format")
             /\ registry = <<>>
             /\ run = NotRunning
             /\ ~ENABLED RunTest
        ELSE /\ ret.ok
             /\ Len(registry) = 1
             /\ registry[1].kind = "it"

\* a test that has its two functions and a name that is no string
C12_Witness ==
    /\ call.fn = "createTest"
    /\ call.node.getActual = "function"
    /\ call.node.runComparison = "function"
    /\ call.node.name = "nonstring"
    /\ ~ret.ok
    /\ registry = <<>>

----------------------------------------------------------------------------
(***************************************************************************)
(* The declarative nodes given to the constructor.  A node lists the       *)
(* fields the parser reads: for a field that must be a function, an array  *)
(* or a string, whether it is one; the children of `tests` and of          *)
(* `inheritedTests`; the length of the array getFragmentSet returns; the   *)
(* checkConditions function; the setup and cleanup hooks that are          *)
(* functions.                                                              *)
(***************************************************************************)
AllHooks == {"beforeAll", "beforeEach", "afterAll", "afterEach"}

Always == Conditions("true", FALSE)
Never == Conditions("false", FALSE)
Index0 == Conditions("true", TRUE)

\* an exported-test: { name, checkConditions, getSubFragment, getActual,
\* runComparison }, valid or lacking one of the fields createTest requires
Leaf(validity, cond, gsf) ==
    [name            |-> IF validity = "noName" THEN "absent" ELSE "string",
     tests           |-> "absent",
     items           |-> <<>>,
     getFragmentSet  |-> "absent",
     nfrags          |-> 0,
     inheritedTests  |-> "absent",
     inherited       |-> <<>>,
     getSubFragment  |-> gsf,
     checkConditions |-> cond,
     getActual       |-> IF validity = "noGetActual" THEN "absent" ELSE "function",
     runComparison   |-> IF validity = "noRunComparison" THEN "absent" ELSE "function",
     hooks           |-> {}]

ValidLeaf == Leaf("ok", NoConditions, "absent")

\* an exported-test with a fragment set
SetTest(validity, cond, gsf, n, inh) ==
    [Leaf(validity, cond, gsf) EXCEPT
        !.getFragmentSet = "function", !.nfrags = n,
        !.inheritedTests = inh,
        !.inherited = IF inh = "array" THEN <<ValidLeaf>> ELSE <<>>]

\* an exported-test with inherited tests (its children are filled in below)
InheritTest(cond, gsf) ==
    [Leaf("noGetActual", cond, gsf) EXCEPT
        !.runComparison = "absent", !.inheritedTests = "array"]

\* a test-suite (its children are filled in below)
Suite(cond, hooks, gsf) ==
    [Leaf("ok", cond, gsf) EXCEPT
        !.tests = "array", !.getActual = "absent", !.runComparison = "absent",
        !.hooks = hooks]

SetSuite(cond, hooks, n) ==
    [Suite(cond, hooks, "absent") EXCEPT !.getFragmentSet = "function", !.nfrags = n]

\* the nodes without children
PlainTests ==
    {Leaf(v, c, "absent") :
        v \in {"ok", "noRunComparison", "noGetActual", "noName"},
        c \in {NoConditions, Always, Never, Index0}}
    \cup {Leaf("ok", Always, "function")}

SetTests ==
    {SetTest(v, c, "absent", n, "absent") :
        v \in {"ok", "noRunComparison"}, c \in {NoConditions, Index0},
        n \in 0 .. MaxFrags}
    \cup {SetTest(v, NoConditions, "absent", n, "array") :
        v \in {"ok", "noRunComparison"}, n \in 0 .. MaxFrags}
    \cup {SetTest("ok", NoConditions, "function", n, "absent") : n \in 0 .. MaxFrags}

\* `tests` that is no array: truthy (a suite that fails), or falsy
MalformedSuites ==
    {[Suite(NoConditions, {}, "absent") EXCEPT !.tests = "nonarray"],
     [ValidLeaf EXCEPT !.tests = "falsy"],
     [Leaf("noName", NoConditions, "absent") EXCEPT !.tests = "falsy"]}

Leaves == PlainTests \cup SetTests \cup MalformedSuites

InnerLeaves ==
    {Leaf("ok", NoConditions, "absent"), Leaf("ok", Always, "absent"),
     Leaf("ok", Never, "absent"), Leaf("ok", Index0, "absent"),
     Leaf("noRunComparison", NoConditions, "absent"),
     Leaf("noGetActual", Never, "absent"),
     Leaf("noName", NoConditions, "absent")}

\* the nodes with children
Containers ==
    {Suite(c, AllHooks, "absent") : c \in {NoConditions, Always, Never, Index0}}
    \cup {Suite(NoConditions, {}, "absent"), Suite(NoConditions, AllHooks, "function")}
    \cup {[Suite(NoConditions, AllHooks, "absent") EXCEPT !.name = "absent"]}
    \cup {[Suite(NoConditions, AllHooks, "absent") EXCEPT
              !.inheritedTests = "array", !.inherited = <<ValidLeaf>>]}
    \cup {SetSuite(c, AllHooks, n) :
              c \in {NoConditions, Never, Index0}, n \in 0 .. MaxFrags}
    \cup {SetSuite(NoConditions, {}, n) : n \in 0 .. MaxFrags}
    \cup {InheritTest(c, g) :
              c \in {NoConditions, Never}, g \in {"absent", "function"}}

\* node k with the children `kids`
WithKids(k, kids) ==
    IF k.tests = "array" THEN [k EXCEPT !.items = kids]
    ELSE [k EXCEPT !.inherited = kids]

\* arrays of nodes one or two levels deep
ShallowForests ==
    {<<>>}
    \cup {<<l>> : l \in Leaves}
    \cup {<<WithKids(k, <<>>)>> : k \in Containers}
    \cup {<<WithKids(k, <<l>>)>> : k \in Containers, l \in Leaves}
    \cup {<<WithKids(k, <<l1, l2>>)>> : k \in Containers, l1 \in InnerLeaves, l2 \in InnerLeaves}
    \cup {<<WithKids(k, <<l1>>), l2>> :
              k \in Containers, l1 \in InnerLeaves, l2 \in InnerLeaves}

\* arrays of nodes three levels deep
DeepForests ==
    {<<WithKids(k1, <<WithKids(k2, <<l>>)>>)>> :
              k1 \in Containers, k2 \in Containers, l \in InnerLeaves}

NotAnArray == [type |-> "nonarray", items |-> <<>>]
ArrayOf(f) == [type |-> "array", items |-> f]

WindowContext == [selfWindow |-> TRUE, document |-> TRUE, nodeType |-> "none"]
FragmentContext ==
    [selfWindow |-> FALSE, document |-> FALSE, nodeType |-> "DOCUMENT_FRAGMENT_NODE"]

\* the arguments of the constructor
Init ==
    /\ call = NoCall
    /\ ret = NoCall
    /\ \/ /\ context \in {WindowContext, FragmentContext}
          /\ tests \in {ArrayOf(f) : f \in ShallowForests}
       \/ /\ context = WindowContext
          /\ tests \in {ArrayOf(f) : f \in DeepForests}
       \/ /\ context \in Contexts
          /\ tests \in {NotAnArray, EmptyTests, ArrayOf(<<ValidLeaf>>)}
    /\ window = "null"
    /\ fragment = <<>>
    /\ status = "new"
    /\ error = NoError
    /\ stack = <<>>
    /\ groups = <<>>
    /\ registry = <<>>
    /\ calls = <<>>
    /\ run = NotRunning
    /\ other = NoOther
    /\ heap = NoHeap

----------------------------------------------------------------------------
(***************************************************************************)
(* The traversal.  `stack` holds the calls in progress: parser's forEach   *)
(* and the describe callbacks of createSuite, createFragmentSuite and      *)
(* createInheritedSuite, which the framework runs at once, inside          *)
(* describe.  Nothing catches an error: a throw unwinds the whole stack    *)
(* and leaves the constructor.                                             *)
(***************************************************************************)
Top == stack[Len(stack)]
Below == SubSeq(stack, 1, Len(stack) - 1)

\* faulty variant: the iteration starts at the second element
ParserFrameSkipsFirst(items, path, frag, idx) ==
    [op |-> "parser", items |-> items, path |-> path, frag |-> frag,
     idx |-> idx, i |-> 2]

\* faulty variant: the iteration takes the first element off the array
ParserFrameShifts(items, path, frag, idx) ==
    [op |-> "parser", items |-> IF items = <<>> THEN items ELSE Tail(items),
     path |-> path, frag |-> frag, idx |-> idx, i |-> 1]

\* tests.forEach: the array iterated, from its first element
ParserFrame(items, path, frag, idx) ==
    [op |-> "parser", items |-> items, path |-> path, frag |-> frag,
     idx |-> idx, i |-> 1]

\* faulty variant: the call never gets to run
CreateFrameHangs(op, test, path, frag, idx, arg4) ==
    [op |-> op, test |-> test, path |-> path, frag |-> frag, idx |-> idx,
     arg4 |-> arg4, pc |-> "hung", frags |-> <<>>, k |-> 1]

\* a call of createSuite, createFragmentSuite or createInheritedSuite
CreateFrame(op, test, path, frag, idx, arg4) ==
    [op |-> op, test |-> test, path |-> path, frag |-> frag, idx |-> idx,
     arg4 |-> arg4, pc |-> "enter", frags |-> <<>>, k |-> 1]

ParserArrayError == FormatError("Test parser requires an array of test-suite objects")

\* faulty variant: a value that is no array is iterated as if it were empty
parserUnchecked(type, items, path, frag, idx) ==
    [err |-> NoError, frames |-> <<ParserFrame(items, path, frag, idx)>>]

\* parser(tests, fragment, index), up to its forEach: its throw, or the
\* iteration it starts
parser(type, items, path, frag, idx) ==
    IF type # "array"
    THEN [err |-> ParserArrayError, frames |-> <<>>]
    ELSE [err |-> NoError, frames |-> <<ParserFrame(items, path, frag, idx)>>]

\* faulty variant: a suite with inheritedTests is created as a plain suite
testSuiteTypeInheritAsDefault(type) ==
    IF type = "set" THEN "createFragmentSuite" ELSE "createSuite"

\* parser's table for a test-suite, { set, default }[type]: `inherit` is no key
testSuiteType(type) ==
    IF type = "set" THEN "createFragmentSuite"
    ELSE IF type = "default" THEN "createSuite"
    ELSE "undefined"

\* faulty variant: the fragment of a suite is resolved with its getSubFragment
suiteArgsResolved(test, path, frag, idx) ==
    [frag |-> getFragment(test, path, frag).val, idx |-> idx,
     arg4 |-> "createSuite", calls |-> getFragment(test, path, frag).calls]

\* faulty variant: parser tells the suite to leave setup and cleanup out
suiteArgsFalse(test, path, frag, idx) ==
    [frag |-> frag, idx |-> idx, arg4 |-> "false", calls |-> <<>>]

\* parser's call for a test-suite: testSuiteType(test, fragment, index,
\* this.createSuite), and the user functions called for the arguments: none
suiteArgs(test, path, frag, idx) ==
    [frag |-> frag, idx |-> idx, arg4 |-> "createSuite", calls |-> <<>>]

\* faulty variant: a fragment set is not told from an ordinary exported-test
testTypeNoSet(type) ==
    IF type = "inherit" THEN "createInheritedSuite" ELSE "getTest"

\* faulty variant: an exported-test with inherited tests is taken for a test
testTypeNoInherit(type) ==
    IF type = "set" THEN "createFragmentSuite" ELSE "getTest"

\* parser's table for an exported-test, { set, inherit, default }[type]
testType(type) ==
    IF type = "set" THEN "createFragmentSuite"
    ELSE IF type = "inherit" THEN "createInheritedSuite"
    ELSE "getTest"

\* faulty variant: the error is caught and the construction ends normally
ThrowSwallowed(err) ==
    /\ status' = "done"
    /\ error' = err
    /\ stack' = <<>>
    /\ groups' = <<>>

\* the throw of `error`: out of every call in progress
Throw(err) ==
    /\ status' = "failed"
    /\ error' = err
    /\ stack' = <<>>
    /\ groups' = <<>>

\* a call of parser made with `callers` in progress and `open` describe
\* blocks open
CallParser(callers, open, type, items, path, frag, idx) ==
    LET r == parser(type, items, path, frag, idx)
    IN  IF r.err # NoError
        THEN Throw(r.err)
        ELSE /\ status' = "parsing"
             /\ stack' = callers \o r.frames
             /\ groups' = open
             /\ UNCHANGED error

\* new TestParser(tests, wndwFragment), up to its call of parser
Construct ==
    /\ status = "new"
    /\ LET r == resolveContext(context)
       IN  IF ~r.ok
           THEN /\ Throw(ContextError)
                /\ UNCHANGED <<window, fragment>>
           ELSE /\ window' = r.window
                /\ fragment' = r.fragment
                /\ CallParser(<<>>, <<>>, tests.type, tests.items, <<>>,
                              r.fragment, NoIndex)
    /\ UNCHANGED <<heap, other, run, call, ret, tests, context, registry, calls>>

\* parser's forEach callback for the next element of the array
ParserStep ==
    /\ status = "parsing"
    /\ Top.op = "parser"
    /\ Top.i <= Len(Top.items)
    /\ LET f    == Top
           test == f.items[f.i]
           path == Append(f.path, f.i)
           rest == Append(Below, [f EXCEPT !.i = f.i + 1])
           kind == isSuite(test)
           type == getTestType(test)
           sub  == getFragment(test, path, f.frag)
           seen == <<DispatchCall("isSuite", path, f.frag, f.idx, "none")>>
       IN  IF ~kind.ok
           THEN /\ Throw(FormatError(kind.msg))
                /\ calls' = calls \o seen
                /\ UNCHANGED registry
           ELSE IF kind.val
           THEN IF testSuiteType(type) = "undefined"
                THEN /\ Throw(TypeError("testSuiteType is not a function"))
                     /\ calls' = calls \o seen
                     /\ UNCHANGED registry
                ELSE LET op == testSuiteType(type)
                         a  == suiteArgs(test, path, f.frag, f.idx)
                     IN  /\ stack' = Append(rest, CreateFrame(op, test, path, a.frag,
                                                              a.idx, a.arg4))
                         /\ calls' = calls \o seen \o a.calls \o
                               <<DispatchCall(op, path, a.frag, a.idx, a.arg4)>>
                         /\ UNCHANGED <<status, error, groups, registry>>
           ELSE IF testType(type) = "getTest"
           THEN LET e == getTest(test, path, sub.val, f.idx, window, groups)
                IN  /\ calls' = calls \o seen \o sub.calls \o
                          <<DispatchCall("getTest", path, sub.val, f.idx, "getTest")>>
                          \o e.calls
                    /\ registry' = registry \o e.regs
                    /\ IF e.err # NoError
                       THEN Throw(e.err)
                       ELSE stack' = rest /\ UNCHANGED <<status, error, groups>>
           ELSE LET op == testType(type)
                IN  /\ stack' = Append(rest, CreateFrame(op, test, path, sub.val,
                                                         f.idx, "getTest"))
                    /\ calls' = calls \o seen \o sub.calls \o
                          <<DispatchCall(op, path, sub.val, f.idx, "getTest")>>
                    /\ UNCHANGED <<status, error, groups, registry>>
    /\ UNCHANGED <<heap, other, run, call, ret, tests, context, window, fragment>>

\* faulty variant: the constructor returns at the first return of parser
statusAfterReturnEarly(callers) == "done"

\* the constructor returns when the parser call it made returns
statusAfterReturn(callers) == IF callers = <<>> THEN "done" ELSE "parsing"

\* parser returns: the forEach is over
ParserReturn ==
    /\ status = "parsing"
    /\ Top.op = "parser"
    /\ Top.i > Len(Top.items)
    /\ stack' = Below
    /\ status' = statusAfterReturn(Below)
    /\ UNCHANGED <<heap, other, run, call, ret, tests, context, window, fragment, error, groups,
                   registry, calls>>

\* BDDTestParser.createSuite, up to its call of parser
CreateSuiteEnter ==
    /\ status = "parsing"
    /\ Top.op = "createSuite"
    /\ Top.pc = "enter"
    /\ LET f    == Top
           gate == doParseTest(f.test.checkConditions, f.path, f.frag, window, f.idx)
           grp  == Group(f.path, NoIndex)
       IN  /\ calls' = calls \o gate.calls
           /\ IF ~Truthy(gate.val)
              THEN /\ stack' = Below
                   /\ UNCHANGED <<status, error, groups, registry>>
              ELSE IF includeSetupCleanup(f.arg4)
              THEN /\ registry' = registry
                         \o <<Reg("describe", f.path, NoIndex, groups, f.frag, "none", NoIndex)>>
                         \o suiteSetup(f.test, f.path, f.frag, window, Append(groups, grp))
                   /\ CallParser(Append(Below, [f EXCEPT !.pc = "cleanup"]),
                                 Append(groups, grp), f.test.tests, f.test.items,
                                 f.path, f.frag, f.idx)
              ELSE /\ CallParser(Append(Below, [f EXCEPT !.pc = "return"]), groups,
                                 f.test.tests, f.test.items, f.path, f.frag, f.idx)
                   /\ UNCHANGED registry
    /\ UNCHANGED <<heap, other, run, call, ret, tests, context, window, fragment>>

\* BDDTestParser.createSuite, after parser has returned
CreateSuiteExit ==
    /\ status = "parsing"
    /\ Top.op = "createSuite"
    /\ Top.pc \in {"cleanup", "return"}
    /\ LET f == Top
       IN  IF f.pc = "cleanup"
           THEN /\ registry' = registry \o
                       suiteCleanup(f.test, f.path, f.frag, window, groups)
                /\ groups' = SubSeq(groups, 1, Len(groups) - 1)
           ELSE UNCHANGED <<groups, registry>>
    /\ stack' = Below
    /\ UNCHANGED <<heap, other, run, call, ret, tests, context, window, fragment, status, error,
                   calls>>

\* BDDTestParser.createFragmentSuite, up to its forEach
FragmentSuiteEnter ==
    /\ status = "parsing"
    /\ Top.op = "createFragmentSuite"
    /\ Top.pc = "enter"
    /\ LET f   == Top
           grp == Group(f.path, NoIndex)
       IN  /\ registry' = registry
                 \o <<Reg("describe", f.path, NoIndex, groups, f.frag, "none", NoIndex)>>
                 \o suiteSetup(f.test, f.path, f.frag, window, Append(groups, grp))
           /\ groups' = Append(groups, grp)
           /\ calls' = Append(calls, HookCall("getFragmentSet", f.path, f.frag,
                                 "none", NoIndex, getFragmentSet(f.test, f.path, f.frag)))
           /\ stack' = Append(Below, [f EXCEPT !.pc = "loop",
                                 !.frags = getFragmentSet(f.test, f.path, f.frag)])
    /\ UNCHANGED <<heap, other, run, call, ret, tests, context, window, fragment, status, error>>

\* the forEach callback for the next fragment: a describe around
\* testFunction(test, frag, i, false)
FragmentSuiteEach ==
    /\ status = "parsing"
    /\ Top.op = "createFragmentSuite"
    /\ Top.pc = "loop"
    /\ Top.k <= Len(Top.frags)
    /\ LET f    == Top
           a    == testFunctionArgs(f.test, f.path, f.frag, f.frags, f.k)
           grp  == Group(f.path, f.k - 1)
           open == <<Reg("describe", f.path, f.k - 1, groups, a.frag, "none", f.k - 1)>>
           made == DispatchCall(f.arg4, f.path, a.frag, a.idx, a.arg4)
       IN  IF f.arg4 = "createSuite"
           THEN /\ registry' = registry \o open
                /\ groups' = Append(groups, grp)
                /\ calls' = Append(calls, made)
                /\ stack' = Append(Append(Below, [f EXCEPT !.pc = "inside"]),
                                   CreateFrame("createSuite", f.test, f.path, a.frag,
                                               a.idx, a.arg4))
                /\ UNCHANGED <<status, error>>
           ELSE LET e == getTest(f.test, f.path, a.frag, a.idx, window,
                                 Append(groups, grp))
                IN  /\ registry' = registry \o open \o e.regs
                    /\ calls' = Append(calls, made) \o e.calls
                    /\ IF e.err # NoError
                       THEN Throw(e.err)
                       ELSE /\ stack' = Append(Below, [f EXCEPT !.k = f.k + 1])
                            /\ UNCHANGED <<status, error, groups>>
    /\ UNCHANGED <<heap, other, run, call, ret, tests, context, window, fragment>>

\* testFunction has returned: the `Set index` describe closes
FragmentSuiteNext ==
    /\ status = "parsing"
    /\ Top.op = "createFragmentSuite"
    /\ Top.pc = "inside"
    /\ stack' = Append(Below, [Top EXCEPT !.pc = "loop", !.k = Top.k + 1])
    /\ groups' = SubSeq(groups, 1, Len(groups) - 1)
    /\ UNCHANGED <<heap, other, run, call, ret, tests, context, window, fragment, status, error,
                   registry, calls>>

\* BDDTestParser.createFragmentSuite, after its forEach
FragmentSuiteExit ==
    /\ status = "parsing"
    /\ Top.op = "createFragmentSuite"
    /\ Top.pc = "loop"
    /\ Top.k > Len(Top.frags)
    /\ registry' = registry \o
           suiteCleanup(Top.test, Top.path, Top.frag, window, groups)
    /\ groups' = SubSeq(groups, 1, Len(groups) - 1)
    /\ stack' = Below
    /\ UNCHANGED <<heap, other, run, call, ret, tests, context, window, fragment, status, error,
                   calls>>

\* BDDTestParser.createInheritedSuite, up to its call of parser
InheritedSuiteEnter ==
    /\ status = "parsing"
    /\ Top.op = "createInheritedSuite"
    /\ Top.pc = "enter"
    /\ LET f == Top
           a == inheritedParserArgs(f.test, f.path, f.frag, f.idx)
       IN  /\ registry' = Append(registry,
                 Reg("describe", f.path, NoIndex, groups, f.frag, "none", NoIndex))
           /\ CallParser(Append(Below, [f EXCEPT !.pc = "return"]),
                         Append(groups, Group(f.path, NoIndex)),
                         a.type, a.items, f.path, a.frag, a.idx)
    /\ UNCHANGED <<heap, other, run, call, ret, tests, context, window, fragment, calls>>

\* BDDTestParser.createInheritedSuite, after parser has returned
InheritedSuiteExit ==
    /\ status = "parsing"
    /\ Top.op = "createInheritedSuite"
    /\ Top.pc = "return"
    /\ groups' = SubSeq(groups, 1, Len(groups) - 1)
    /\ stack' = Below
    /\ UNCHANGED <<heap, other, run, call, ret, tests, context, window, fragment, status, error,
                   registry, calls>>

Next ==
    \/ Construct
    \/ ParserStep
    \/ ParserReturn
    \/ CreateSuiteEnter
    \/ CreateSuiteExit
    \/ FragmentSuiteEnter
    \/ FragmentSuiteEach
    \/ FragmentSuiteNext
    \/ FragmentSuiteExit
    \/ InheritedSuiteEnter
    \/ InheritedSuiteExit

Spec == Init /\ [][Next]_vars

----------------------------------------------------------------------------
(***************************************************************************)
(* Reading the tree and the logs.                                          *)
(***************************************************************************)
\* the array parser iterates below a node
Kids(n) == IF n.tests = "array" THEN n.items ELSE n.inherited

RECURSIVE NodeIn(_, _)
NodeIn(items, path) ==
    IF Len(path) = 1 THEN items[path[1]]
    ELSE NodeIn(Kids(items[path[1]]), Tail(path))

\* the node a path of `calls` or `registry` names
NodeAt(path) == NodeIn(tests.items, path)

\* the node at `path` and the nodes above it
UpTo(path) == {SubSeq(path, 1, n) : n \in 1 .. Len(path)}

IsPrefix(a, b) == Len(a) <= Len(b) /\ SubSeq(b, 1, Len(a)) = a

IsSetSuite(n) == n.tests = "array" /\ n.getFragmentSet = "function"

\* a context the constructor is documented to accept
ValidContext(ctx) ==
    \/ ctx.selfWindow /\ ctx.document
    \/ ctx.nodeType \in {"DOCUMENT_FRAGMENT_NODE", "ELEMENT_NODE"}

C7_ParserArrayOrNoOp ==
    (status # "new" /\ ValidContext(context)) =>
        /\ tests.type # "array" =>
              /\ status = "failed"
              /\ error = ParserArrayError
              /\ calls = <<>>
              /\ registry = <<>>
        /\ tests = EmptyTests =>
              /\ status \in {"parsing", "done"}
              /\ error = NoError
              /\ calls = <<>>
              /\ registry = <<>>
              /\ (status = "parsing" => Len(stack) = 1 /\ Top.op = "parser")

C7_Witness ==
    /\ tests = EmptyTests
    /\ status = "done"
    /\ stack = <<>>

(***************************************************************************)
(* C8: below a suite whose checkConditions returns false for every         *)
(* fragment and index, at any depth, createTest is never invoked and no    *)
(* test is registered, be the suite a plain suite or a fragment-set suite. *)
(***************************************************************************)
IsPrunedSuite(n) == n.tests = "array" /\ n.checkConditions = Never

C8_PrunedSuiteDispatchesNoTest ==
    /\ \A i \in DOMAIN calls :
          calls[i].fn = "createTest" =>
              \A q \in UpTo(calls[i].path) : ~IsPrunedSuite(NodeAt(q))
    /\ \A j \in DOMAIN registry :
          registry[j].kind = "it" =>
              \A q \in UpTo(registry[j].path) : ~IsPrunedSuite(NodeAt(q))

\* a fragment-set suite that is never enabled, holding a suite that holds a
\* valid test, has been asked about each of its fragments
C8_Witness ==
    /\ status = "done"
    /\ Len(tests.items) = 1
    /\ IsPrunedSuite(tests.items[1])
    /\ IsSetSuite(tests.items[1])
    /\ tests.items[1].nfrags = 2
    /\ Len(tests.items[1].items) = 1
    /\ tests.items[1].items[1].tests = "array"
    /\ tests.items[1].items[1].items = <<ValidLeaf>>
    /\ Cardinality({i \in DOMAIN calls : calls[i].fn = "checkConditions"}) = 2

(***************************************************************************)
(* C9: for a node whose getFragmentSet returns N fragments,                *)
(* createFragmentSuite calls the function it was given (createSuite or     *)
(* getTest) once per fragment, in order, the i-th call with (node, i-th    *)
(* fragment, i, false), i counted from zero: never otherwise, and exactly  *)
(* N times once it has returned.                                           *)
(***************************************************************************)
\* the calls made between the d-th call, a createFragmentSuite, and the
\* next createFragmentSuite for the same node
CallsOf(d) ==
    LET later == {e \in DOMAIN calls :
                     /\ e > d
                     /\ calls[e].fn = "createFragmentSuite"
                     /\ calls[e].path = calls[d].path}
        end   == IF later = {} THEN Len(calls) + 1
                 ELSE CHOOSE e \in later : \A x \in later : e <= x
    IN  SubSeq(calls, d + 1, end - 1)

PerFragmentCalls(d) ==
    SelectSeq(CallsOf(d),
              LAMBDA e : e.path = calls[d].path /\ e.fn = calls[d].arg4)

\* what getFragmentSet returned to the d-th call
FragmentsOf(d) ==
    LET got == SelectSeq(CallsOf(d),
                   LAMBDA e : e.path = calls[d].path /\ e.fn = "getFragmentSet")
    IN  IF got = <<>> THEN <<>> ELSE got[1].result

PerFragmentExpected(d) ==
    [k \in 1 .. Len(FragmentsOf(d)) |->
        DispatchCall(calls[d].arg4, calls[d].path, FragmentsOf(d)[k], k - 1, "false")]

C9_OneCallPerFragment ==
    \A d \in DOMAIN calls :
        calls[d].fn = "createFragmentSuite" =>
            /\ IsPrefix(PerFragmentCalls(d), PerFragmentExpected(d))
            /\ status = "done" => PerFragmentCalls(d) = PerFragmentExpected(d)

\* a set of two fragments inside a set of two fragments: four calls of
\* getTest for the inner exported-test
C9_Witness ==
    /\ status = "done"
    /\ \E d \in DOMAIN calls :
          /\ calls[d].fn = "createFragmentSuite"
          /\ calls[d].arg4 = "getTest"
          /\ Len(calls[d].path) = 2
          /\ Len(PerFragmentCalls(d)) = 2
          /\ PerFragmentCalls(d)[2].idx = 1
    /\ Cardinality({e \in DOMAIN calls : calls[e].fn = "getTest"}) = 4

(***************************************************************************)
(* C10: a fragment-set suite registers each of its setup and cleanup hooks *)
(* once for the whole set, in the describe block of the suite, whatever    *)
(* the number of fragments (zero included): never once per fragment.       *)
(***************************************************************************)
\* the entries of kind h the suite at `path` registered inside the block `grp`
HookEntries(h, path, grp) ==
    {j \in DOMAIN registry :
        /\ registry[j].kind = h
        /\ registry[j].path = path
        /\ IsPrefix(grp, registry[j].group)}

\* the describe blocks opened for a fragment-set suite as a whole: not the
\* `Set index` blocks
SetSuiteBlocks ==
    {j \in DOMAIN registry :
        /\ registry[j].kind = "describe"
        /\ registry[j].set = NoIndex
        /\ IsSetSuite(NodeAt(registry[j].path))}

BlockOf(j) == Append(registry[j].group, Group(registry[j].path, NoIndex))

C10_HooksOncePerSet ==
    \A j \in SetSuiteBlocks :
        LET test == NodeAt(registry[j].path)
        IN  /\ \A h \in AllHooks :
                  /\ Cardinality(HookEntries(h, registry[j].path, BlockOf(j))) <= 1
                  /\ \A e \in HookEntries(h, registry[j].path, BlockOf(j)) :
                        /\ h \in test.hooks
                        /\ registry[e].group = BlockOf(j)
            /\ \A h \in test.hooks \cap {"beforeAll", "beforeEach"} :
                  Cardinality(HookEntries(h, registry[j].path, BlockOf(j))) = 1
            /\ status = "done" =>
                  \A h \in test.hooks :
                      Cardinality(HookEntries(h, registry[j].path, BlockOf(j))) = 1

\* a suite with the four hooks and two fragments, and one with none
C10_Witness ==
    /\ status = "done"
    /\ \E j \in SetSuiteBlocks :
          /\ NodeAt(registry[j].path).hooks = AllHooks
          /\ NodeAt(registry[j].path).nfrags = 2
          /\ Cardinality({e \in DOMAIN registry :
                 registry[e].kind = "it" /\ IsPrefix(BlockOf(j), registry[e].group)}) = 4
          /\ Cardinality({e \in DOMAIN registry :
                 registry[e].kind \in AllHooks /\ IsPrefix(BlockOf(j), registry[e].group)}) = 4

(***************************************************************************)
(* C11: createSuite evaluates doParseTest(suite.checkConditions, fragment,  *)
(* index) first.  When the gate passes, and createSuite was dispatched by   *)
(* parser, it opens one describe block, registers the suite's setup hooks,  *)
(* traverses suite.tests with the same fragment and index, then registers   *)
(* the cleanup hooks, in that order.  When the gate fails it registers      *)
(* nothing and visits no child.  (Called by createFragmentSuite with        *)
(* `false` it traverses the children and registers nothing of its own.)     *)
(***************************************************************************)
CreateSuiteCalls == {d \in DOMAIN calls : calls[d].fn = "createSuite"}

\* the d-th call, a createSuite, has evaluated its gate
Entered(d) ==
    ~ /\ status = "parsing"
      /\ Top.op = "createSuite"
      /\ Top.pc = "enter"
      /\ Top.path = calls[d].path
      /\ Top.frag = calls[d].frag
      /\ Top.idx = calls[d].idx

\* the call that follows the d-th is the node's checkConditions, given the
\* fragment and index of the d-th call and the instance's window
GateFollows(d) ==
    /\ d + 1 \in DOMAIN calls
    /\ calls[d + 1] = HookCall("checkConditions", calls[d].path, calls[d].frag,
                               window, calls[d].idx, calls[d + 1].result)

GatePassed(d) ==
    \/ NodeAt(calls[d].path).checkConditions.type = "undefined"
    \/ GateFollows(d) /\ Truthy(calls[d + 1].result)

\* the describe blocks and the hooks the d-th call registered
OwnBlocks(d) ==
    {j \in DOMAIN registry :
        /\ registry[j].kind = "describe"
        /\ registry[j].set = NoIndex
        /\ registry[j].path = calls[d].path
        /\ registry[j].frag = calls[d].frag}

OwnHooks(d) ==
    {j \in DOMAIN registry :
        /\ registry[j].kind \in AllHooks
        /\ registry[j].path = calls[d].path
        /\ registry[j].frag = calls[d].frag}

\* the elements of the node's array the d-th call has had parser visit
ChildVisits(d) ==
    SelectSeq(SubSeq(calls, d + 1, Len(calls)),
              LAMBDA e : /\ e.fn = "isSuite"
                         /\ Len(e.path) = Len(calls[d].path) + 1
                         /\ IsPrefix(calls[d].path, e.path)
                         /\ e.frag = calls[d].frag
                         /\ e.idx = calls[d].idx)

ChildVisitsExpected(d) ==
    [i \in 1 .. Len(Kids(NodeAt(calls[d].path))) |->
        DispatchCall("isSuite", Append(calls[d].path, i), calls[d].frag,
                     calls[d].idx, "none")]

\* what lies inside the describe block opened by the j-th entry
InsideBlock(j) ==
    {e \in DOMAIN registry : IsPrefix(BlockOf(j), registry[e].group)}

SetupThenChildrenThenCleanup(d, j) ==
    LET test   == NodeAt(calls[d].path)
        before == HooksOf(test, <<"beforeAll", "beforeEach">>)
        after  == HooksOf(test, <<"afterAll", "afterEach">>)
        own    == OwnHooks(d)
        closed == {e \in own : registry[e].kind \in {"afterAll", "afterEach"}}
    IN  /\ \A k \in 1 .. Len(before) :
              /\ j + k \in own
              /\ registry[j + k] = Reg(before[k], calls[d].path, NoIndex,
                                       BlockOf(j), calls[d].frag, window, NoIndex)
        /\ \A e \in InsideBlock(j) : e > j
        /\ \A e \in own \ closed : e <= j + Len(before)
        /\ \A e \in closed : \A x \in InsideBlock(j) \ closed : x < e
        /\ \A e \in own : registry[e].group = BlockOf(j)
        /\ Cardinality(closed) <= Len(after)
        /\ status = "done" =>
              LET m == CHOOSE x \in InsideBlock(j) : \A y \in InsideBlock(j) : y <= x
              IN  \A k \in 1 .. Len(after) :
                      registry[m - Len(after) + k] =
                          Reg(after[k], calls[d].path, NoIndex, BlockOf(j),
                              calls[d].frag, window, NoIndex)
        /\ (status = "done" /\ after # <<>>) => Cardinality(closed) = Len(after)

----------------------------------------------------------------------------
(***************************************************************************)
(* Construction followed by the framework's run of the registered tests.   *)
(***************************************************************************)
RunLeaves ==
    {ValidLeaf, Leaf("ok", Index0, "absent"), Leaf("ok", Always, "function"),
     Leaf("ok", Never, "absent")}

\* a suite, a suite and an exported-test with two fragments each, and an
\* exported-test with inherited tests
RunContainers ==
    {Suite(NoConditions, AllHooks, "absent"),
     SetSuite(NoConditions, AllHooks, 2),
     InheritTest(NoConditions, "function")}

RunForests ==
    {<<WithKids(k, <<l>>), ValidLeaf>> : k \in RunContainers, l \in RunLeaves}
    \cup {<<SetTest("ok", Index0, "function", 2, "absent"), ValidLeaf>>}
    \cup {<<ValidLeaf, Leaf("noRunComparison", NoConditions, "absent")>>}

ElementContext ==
    [selfWindow |-> FALSE, document |-> FALSE, nodeType |-> "ELEMENT_NODE"]

InitRun ==
    /\ call = NoCall
    /\ ret = NoCall
    /\ context \in {WindowContext, FragmentContext, ElementContext}
    /\ tests \in {ArrayOf(f) : f \in RunForests}
    /\ window = "null"
    /\ fragment = <<>>
    /\ status = "new"
    /\ error = NoError
    /\ stack = <<>>
    /\ groups = <<>>
    /\ registry = <<>>
    /\ calls = <<>>
    /\ run = NotRunning
    /\ other = NoOther
    /\ heap = NoHeap

NextRun ==
    \/ Next
    \/ RunHook
    \/ RunTest
    \/ ActualSettles
    \/ RunComparison

SpecRun == InitRun /\ [][NextRun]_vars

\* the registered tests, and what run.log holds of one of them
RegisteredTests == {j \in DOMAIN registry : registry[j].kind = "it"}

RunOf(fn, j) == SelectSeq(run.log, LAMBDA e : e.fn = fn /\ e.test = j)

RunPos(fn, j) ==
    CHOOSE i \in DOMAIN run.log : run.log[i].fn = fn /\ run.log[i].test = j

(***************************************************************************)
(* C13: when the framework runs a registered test, getActual is called     *)
(* exactly once, with the fragment, window and index createTest was given; *)
(* runComparison is called only once the promise of getActual has          *)
(* resolved, exactly once, with the value it resolved with; when the       *)
(* promise rejects runComparison is never called.                          *)
(***************************************************************************)
C13_GetActualThenRunComparison ==
    \A j \in RegisteredTests :
        LET got     == RunOf("getActual", j)
            settled == RunOf("settled", j)
            cmp     == RunOf("runComparison", j)
            fin     == RunOf("finished", j)
        IN  /\ Len(got) <= 1
            /\ Len(settled) <= 1
            /\ Len(cmp) <= 1
            /\ got # <<>> =>
                  /\ got[1].wndw = window
                  /\ \E d \in DOMAIN calls :
                        calls[d] = DispatchCall("createTest", registry[j].path,
                                                got[1].frag, got[1].idx, "none")
                  /\ got[1].frag = registry[j].frag
                  /\ got[1].idx = registry[j].idx
            /\ settled # <<>> =>
                  /\ got # <<>>
                  /\ RunPos("getActual", j) < RunPos("settled", j)
            /\ cmp # <<>> =>
                  /\ settled # <<>>
                  /\ settled[1].out \in ActualValues
                  /\ cmp[1].arg = settled[1].out
                  /\ RunPos("settled", j) < RunPos("runComparison", j)
            /\ (settled # <<>> /\ settled[1].out = "rejected") => cmp = <<>>
            /\ fin # <<>> =>
                  /\ Len(got) = 1
                  /\ (settled # <<>> /\ settled[1].out \in ActualValues) => Len(cmp) = 1

\* of the two tests of a fragment set, the first has rejected and the second
\* has been compared with the value it resolved with
C13_Witness ==
    \E j1 \in RegisteredTests, j2 \in RegisteredTests :
        /\ registry[j1].idx = 0
        /\ registry[j2].idx = 1
        /\ window = "null"
        /\ RunOf("settled", j1) # <<>>
        /\ RunOf("settled", j1)[1].out = "rejected"
        /\ RunOf("finished", j1) = <<Finished(j1, "failed")>>
        /\ RunOf("runComparison", j2) # <<>>
        /\ RunOf("runComparison", j2)[1].arg = "actualB"
        /\ RunOf("finished", j2) = <<Finished(j2, "passed")>>

(***************************************************************************)
(* C14: getTest(node, fragment, index) calls createTest(node, fragment,     *)
(* index), once, with the fragment and index it was given, iff             *)
(* doParseTest(node.checkConditions, fragment, index) is truthy; when it   *)
(* is falsy createTest is not called and getTest returns normally.         *)
(***************************************************************************)
GetTestCalls == {d \in DOMAIN calls : calls[d].fn = "getTest"}

\* the createTest calls made with the node, fragment and index of the d-th call
CreatedBy(d) ==
    {c \in DOMAIN calls :
        calls[c] = DispatchCall("createTest", calls[d].path, calls[d].frag,
                                calls[d].idx, "none")}

C14_GetTestGate ==
    \A d \in GetTestCalls :
        LET gated == NodeAt(calls[d].path).checkConditions.type = "function"
            next  == IF gated THEN d + 2 ELSE d + 1
        IN  /\ gated => GateFollows(d)
            /\ IF GatePassed(d)
               THEN CreatedBy(d) = {next}
               ELSE /\ CreatedBy(d) = {}
                    /\ next \in DOMAIN calls => calls[next].fn # "createTest"
                    /\ next \notin DOMAIN calls => status # "failed"

\* an exported-test enabled for index 0 only, in a set of two fragments
C14_Witness ==
    /\ status = "done"
    /\ \E d1 \in GetTestCalls, d2 \in GetTestCalls :
          /\ calls[d1].path = calls[d2].path
          /\ calls[d1].idx = 0
          /\ calls[d2].idx = 1
          /\ GateFollows(d1) /\ GatePassed(d1) /\ CreatedBy(d1) = {d1 + 2}
          /\ GateFollows(d2) /\ ~GatePassed(d2) /\ CreatedBy(d2) = {}

(***************************************************************************)
(* C15: for every exported-test parser first resolves the fragment with    *)
(* getFragment(node, fragment), then calls exactly one operation:          *)
(* createFragmentSuite for `set`, createInheritedSuite for `inherit`,      *)
(* getTest for `default`, with (node, resolved fragment, index, getTest).  *)
(* For a `set` exported-test getSubFragment is applied once, before        *)
(* getFragmentSet, and getFragmentSet is given the resolved fragment.      *)
(***************************************************************************)
Visits == {s \in DOMAIN calls : calls[s].fn = "isSuite"}

IsExportedTest(n) == n.tests \in {"absent", "falsy"} /\ n.name = "string"

\* the calls of the user function fn of the node visited at s, made for that visit
UserCalls(fn, s) ==
    {e \in DOMAIN calls :
        /\ calls[e].fn = fn
        /\ calls[e].path = calls[s].path
        /\ IsPrefix(calls[s].frag, calls[e].frag)}

C15_ExportedTestDispatch ==
    \A s \in Visits :
        LET n        == NodeAt(calls[s].path)
            sub      == n.getSubFragment = "function"
            d        == IF sub THEN s + 2 ELSE s + 1
            resolved == IF sub THEN SubFragmentOf(calls[s].path, calls[s].frag)
                        ELSE calls[s].frag
            op       == IF n.getFragmentSet = "function" THEN "createFragmentSuite"
                        ELSE IF n.inheritedTests = "array" THEN "createInheritedSuite"
                        ELSE "getTest"
        IN  IsExportedTest(n) =>
                /\ d \in DOMAIN calls
                /\ sub => calls[s + 1] = HookCall("getSubFragment", calls[s].path,
                                                  calls[s].frag, "none", NoIndex, resolved)
                /\ UserCalls("getSubFragment", s) = IF sub THEN {s + 1} ELSE {}
                /\ calls[d] = DispatchCall(op, calls[s].path, resolved, calls[s].idx,
                                           "getTest")
                /\ {e \in DOMAIN calls :
                       /\ calls[e].path = calls[s].path
                       /\ calls[e].arg4 = "getTest"
                       /\ IsPrefix(calls[s].frag, calls[e].frag)} = {d}
                /\ \A e \in UserCalls("getFragmentSet", s) :
                       /\ op = "createFragmentSuite"
                       /\ e > d
                       /\ calls[e].frag = resolved
                /\ Cardinality(UserCalls("getFragmentSet", s)) <= 1
                /\ (status = "done" /\ op = "createFragmentSuite") =>
                       Cardinality(UserCalls("getFragmentSet", s)) = 1

\* an exported-test with getSubFragment and a set of two fragments
C15_Witness ==
    /\ status = "done"
    /\ \E s \in Visits :
          /\ IsExportedTest(NodeAt(calls[s].path))
          /\ calls[s + 1].fn = "getSubFragment"
          /\ calls[s + 2].fn = "createFragmentSuite"
          /\ calls[s + 3].fn = "getFragmentSet"
          /\ calls[s + 3].frag = SubFragmentOf(calls[s].path, calls[s].frag)
          /\ Len(calls[s + 3].result) = 2

(***************************************************************************)
(* C16: for every test-suite parser calls createFragmentSuite when the     *)
(* type is `set` and createSuite when it is `default`, with (node,         *)
(* fragment, index, createSuite), the fragment being the one parser has.   *)
(* For a test-suite of type `inherit` the table yields undefined and the   *)
(* call throws: the traversal ends there and nothing is dispatched or      *)
(* registered for the node.                                                *)
(***************************************************************************)
C16_SuiteDispatch ==
    \A s \in Visits :
        LET n == NodeAt(calls[s].path)
        IN  n.tests = "array" =>
                IF n.getFragmentSet # "function" /\ n.inheritedTests = "array"
                THEN /\ s = Len(calls)
                     /\ status = "failed"
                     /\ error.kind = "TypeError"
                     /\ \A j \in DOMAIN registry : registry[j].path # calls[s].path
                ELSE /\ s + 1 \in DOMAIN calls
                     /\ calls[s + 1] =
                           DispatchCall(IF n.getFragmentSet = "function"
                                        THEN "createFragmentSuite" ELSE "createSuite",
                                        calls[s].path, calls[s].frag, calls[s].idx,
                                        "createSuite")
                     /\ UserCalls("getSubFragment", s) = {}

\* a suite with inheritedTests, inside a suite that has registered its setup
C16_Witness ==
    /\ status = "failed"
    /\ error.kind = "TypeError"
    /\ Len(calls[Len(calls)].path) = 2
    /\ NodeAt(calls[Len(calls)].path).tests = "array"
    /\ NodeAt(calls[Len(calls)].path).inheritedTests = "array"
    /\ Len(registry) = 3

(***************************************************************************)
(* C17: createInheritedSuite(test, fragment, index) opens one describe     *)
(* block for the node and has parser traverse test.inheritedTests inside   *)
(* it, with exactly the fragment it was given (getSubFragment, already     *)
(* applied by parser, is not applied again) and the same index.            *)
(***************************************************************************)
InheritedSuiteCalls == {d \in DOMAIN calls : calls[d].fn = "createInheritedSuite"}

\* the d-th call, of a create operation, has run up to its traversal
Started(d) ==
    ~ /\ status = "parsing"
      /\ Top.op = calls[d].fn
      /\ Top.pc = "enter"
      /\ Top.path = calls[d].path
      /\ Top.frag = calls[d].frag
      /\ Top.idx = calls[d].idx

\* the visits of the elements of the node's array made for the d-th call
ChildVisitsOf(d) ==
    {e \in DOMAIN calls :
        /\ e > d
        /\ calls[e].fn = "isSuite"
        /\ Len(calls[e].path) = Len(calls[d].path) + 1
        /\ IsPrefix(calls[d].path, calls[e].path)
        /\ IsPrefix(calls[d].frag, calls[e].frag)}

C17_InheritedSuite ==
    \A d \in InheritedSuiteCalls :
        Started(d) =>
            /\ Cardinality(OwnBlocks(d)) = 1
            /\ \A j \in OwnBlocks(d) :
                  \A e \in DOMAIN registry :
                      (/\ IsPrefix(calls[d].path, registry[e].path)
                       /\ registry[e].path # calls[d].path
                       /\ IsPrefix(calls[d].frag, registry[e].frag))
                      => IsPrefix(BlockOf(j), registry[e].group)
            /\ \A e \in ChildVisitsOf(d) :
                  /\ calls[e].frag = calls[d].frag
                  /\ calls[e].idx = calls[d].idx
            /\ IsPrefix(ChildVisits(d), ChildVisitsExpected(d))
            /\ status = "done" => ChildVisits(d) = ChildVisitsExpected(d)
            /\ \A e \in DOMAIN calls :
                  (calls[e].fn = "getSubFragment" /\ calls[e].path = calls[d].path)
                  => calls[e].frag # calls[d].frag

\* an exported-test with getSubFragment and inherited tests, in the second
\* fragment of a set
C17_Witness ==
    /\ status = "done"
    /\ \E d \in InheritedSuiteCalls :
          /\ calls[d].idx = 1
          /\ calls[d - 1].fn = "getSubFragment"
          /\ calls[d].frag = calls[d - 1].result
          /\ Len(ChildVisits(d)) = 1
          /\ \E j \in RegisteredTests :
                /\ IsPrefix(calls[d].path, registry[j].path)
                /\ registry[j].frag = calls[d].frag
                /\ registry[j].idx = 1

(***************************************************************************)
(* C18: a node whose checkConditions returns a falsy value is not created, *)
(* of whatever kind it is (suite, fragment-set suite, exported-test,       *)
(* fragment-set exported-test, exported-test with inherited tests):        *)
(* nothing is registered for it (no describe block, no hook, no test) nor  *)
(* for anything below it, and no error is thrown.                          *)
(***************************************************************************)
\* the node at `path`, or a node above it, is a named node whose
\* checkConditions returns false for every fragment and index
NeverEnabled(path) ==
    \E q \in UpTo(path) :
        /\ NodeAt(q).name = "string"
        /\ NodeAt(q).checkConditions = Never

C18_FalsyConditionsSkipNode ==
    /\ \A j \in DOMAIN registry : ~NeverEnabled(registry[j].path)
    /\ (status = "failed" /\ calls # <<>>) => ~NeverEnabled(calls[Len(calls)].path)

(***************************************************************************)
(* C19: the checkConditions of a node is evaluated before anything is      *)
(* dispatched for the node, every time with the fragment and index of the  *)
(* dispatch, and nothing but the value it returns bears on the traversal.  *)
(***************************************************************************)
\* the operations that register on entry
Creations == {"createFragmentSuite", "createInheritedSuite", "createTest"}

C19_GateBeforeDispatch ==
    /\ \A d \in DOMAIN calls :
          NodeAt(calls[d].path).checkConditions.type = "function" =>
              /\ calls[d].fn \in Creations =>
                    \E g \in 1 .. d - 1 :
                        /\ calls[g].fn = "checkConditions"
                        /\ calls[g].path = calls[d].path
              /\ (calls[d].fn \in {"createSuite", "getTest"} /\ Started(d)) =>
                    GateFollows(d)
              /\ calls[d].fn = "checkConditions" =>
                    /\ calls[d - 1].fn \in {"createSuite", "getTest"}
                    /\ calls[d - 1].path = calls[d].path
                    /\ calls[d - 1].frag = calls[d].frag
                    /\ calls[d - 1].idx = calls[d].idx
    /\ \A j \in DOMAIN registry :
          NodeAt(registry[j].path).checkConditions.type = "function" =>
              \E g \in DOMAIN calls :
                  /\ calls[g].fn = "checkConditions"
                  /\ calls[g].path = registry[j].path

(***************************************************************************)
(* C20: a construction that succeeds has traversed the array it was given  *)
(* exactly once, with the root fragment, depth first and from left to      *)
(* right: the elements of an array are visited in array order, each once,  *)
(* and everything done for an element and below it is done before the      *)
(* next element is visited.                                                *)
(***************************************************************************)
Parent(path) == SubSeq(path, 1, Len(path) - 1)

\* two visits made by the same forEach
SameForEach(a, b) ==
    /\ Len(calls[a].path) = Len(calls[b].path)
    /\ Parent(calls[a].path) = Parent(calls[b].path)
    /\ calls[a].frag = calls[b].frag
    /\ calls[a].idx = calls[b].idx

\* the c-th call was made for the element visited at a, or below it
InSubtree(c, a) ==
    /\ IsPrefix(calls[a].path, calls[c].path)
    /\ IsPrefix(calls[a].frag, calls[c].frag)

C20_DepthFirstLeftToRight ==
    /\ \A a \in Visits :
          /\ calls[a].path[Len(calls[a].path)] =
                1 + Cardinality({b \in Visits : b < a /\ SameForEach(a, b)})
          /\ \A b \in Visits :
                (a < b /\ SameForEach(a, b)) =>
                    \A c \in DOMAIN calls : c > b => ~InSubtree(c, a)
          /\ IF Len(calls[a].path) = 1
             THEN calls[a].frag = fragment /\ calls[a].idx = NoIndex
             ELSE \E up \in Visits :
                      /\ up < a
                      /\ calls[up].path = Parent(calls[a].path)
                      /\ IsPrefix(calls[up].frag, calls[a].frag)
    /\ status = "done" =>
          \A i \in 1 .. Len(tests.items) :
              Cardinality({a \in Visits : calls[a].path = <<i>>}) = 1

\* a suite with two fragments and one test, followed by a test: the test of
\* the suite is visited for both fragments before the suite's sibling
C20_Witness ==
    /\ status = "done"
    /\ Len(tests.items) = 2
    /\ \E a \in Visits, b \in Visits, c \in Visits, d \in Visits :
          /\ a < b /\ b < c /\ c < d
          /\ calls[a].path = <<1>>
          /\ calls[b].path = <<1, 1>> /\ calls[b].idx = 0
          /\ calls[c].path = <<1, 1>> /\ calls[c].idx = 1
          /\ calls[d].path = <<2>>
          /\ \E x \in DOMAIN calls : x > c /\ x < d /\ calls[x].fn = "createTest"

(***************************************************************************)
(* C21: every malformed node the traversal reaches (a node without a       *)
(* string name, a node whose `tests` is no array, an exported-test         *)
(* without getActual or runComparison) makes the traversal throw a         *)
(* FormatError at that node: the node is never processed as if it were     *)
(* well formed.                                                            *)
(***************************************************************************)
IsLeafTest(n) ==
    /\ n.tests = "absent"
    /\ n.getFragmentSet # "function"
    /\ n.inheritedTests # "array"

Malformed(n) ==
    \/ n.name # "string"
    \/ n.tests \in {"falsy", "nonarray"}
    \/ IsLeafTest(n) /\ (n.getActual # "function" \/ n.runComparison # "function")

C21_MalformedNodeThrows ==
    \A s \in Visits :
        Malformed(NodeAt(calls[s].path)) =>
            /\ status = "failed"
            /\ error.kind = "FormatError"
            /\ calls[Len(calls)].path = calls[s].path
            /\ \A j \in DOMAIN registry : registry[j].path # calls[s].path

(***************************************************************************)
(* C22: an error raised during construction is not recovered: the          *)
(* traversal stops at the node that raised it, no later node is visited    *)
(* or dispatched, and the error leaves the constructor; what was           *)
(* registered before stays registered.                                     *)
(***************************************************************************)
WellFormedTest(n) ==
    /\ n.name = "string"
    /\ n.getActual = "function"
    /\ n.runComparison = "function"

\* what the operations called so far have registered is in the registry
RegistrationsKept ==
    \A d \in DOMAIN calls :
        /\ (calls[d].fn = "createTest" /\ WellFormedTest(NodeAt(calls[d].path))) =>
              \E j \in RegisteredTests :
                  /\ registry[j].path = calls[d].path
                  /\ registry[j].frag = calls[d].frag
                  /\ registry[j].idx = calls[d].idx
        /\ calls[d].fn \in {"createFragmentSuite", "createInheritedSuite"} =>
              OwnBlocks(d) # {}
        /\ (calls[d].fn = "createSuite" /\ calls[d].arg4 # "false" /\ GatePassed(d)) =>
              OwnBlocks(d) # {}

C22_ErrorEndsConstruction ==
    /\ error # NoError <=> status = "failed"
    /\ status = "failed" =>
          /\ error.kind \in {"FormatError", "ContextError", "TypeError"}
          /\ stack = <<>>
          /\ ~ENABLED Next
          /\ error.kind = "ContextError" => (calls = <<>> /\ registry = <<>>)
          /\ \A s \in Visits :
                (\A x \in Visits : x <= s) =>
                    \A c \in DOMAIN calls : c > s => calls[c].path = calls[s].path
          /\ RegistrationsKept

\* the test of a suite is malformed: the suite's describe and hooks stay
\* registered and the suite's sibling is never visited
C22_Witness ==
    /\ status = "failed"
    /\ error.kind = "FormatError"
    /\ Len(tests.items) = 2
    /\ \A s \in Visits : calls[s].path # <<2>>
    /\ Len(registry) = 3
    /\ calls[Len(calls)].fn = "createTest"

(***************************************************************************)
(* C23: a getActual that throws or rejects, or a runComparison that        *)
(* throws, fails that test and nothing else: the construction is over and  *)
(* stays successful, every test created stays registered, and the          *)
(* framework goes on to the next callback.                                 *)
(***************************************************************************)
C23_FailureIsPerTest ==
    /\ run.log # <<>> => (status = "done" /\ error = NoError /\ RegistrationsKept)
    /\ (/\ status = "done"
        /\ run.phase \notin {"pending", "resolved"}
        /\ \E j \in DOMAIN registry : IsNextCallback(j, run.pos))
       => (ENABLED RunTest \/ ENABLED RunHook)
    /\ \A j \in RegisteredTests :
          RunOf("finished", j) # <<>> => Len(RunOf("getActual", j)) = 1

\* of three tests, the first threw in getActual, the second in
\* runComparison, and the third has passed
C23_Witness ==
    \E j1 \in RegisteredTests, j2 \in RegisteredTests, j3 \in RegisteredTests :
        /\ j1 < j2 /\ j2 < j3
        /\ RunOf("getActual", j1) # <<>>
        /\ RunOf("getActual", j1)[1].out = "throws"
        /\ RunOf("runComparison", j2) # <<>>
        /\ RunOf("runComparison", j2)[1].out = "throws"
        /\ RunOf("finished", j2) = <<Finished(j2, "failed")>>
        /\ RunOf("finished", j3) = <<Finished(j3, "passed")>>

(***************************************************************************)
(* C25: window and fragment are assigned by the constructor and never      *)
(* again.  Given a window, window is that window and fragment its          *)
(* document; given a document fragment or an element, window stays null.   *)
(* Every checkConditions, every hook and every getActual is given the      *)
(* window of the instance: null, then.                                     *)
(***************************************************************************)
FieldsAsConstructed ==
    IF context.selfWindow /\ context.document
    THEN window = "window" /\ fragment = RootFragment("document")
    ELSE /\ window = "null"
         /\ fragment = RootFragment(IF context.nodeType = "DOCUMENT_FRAGMENT_NODE"
                                    THEN "fragment" ELSE "template")

WindowGiven ==
    /\ \A c \in DOMAIN calls : calls[c].fn = "checkConditions" => calls[c].wndw = window
    /\ \A j \in DOMAIN registry : IsCallback(registry[j]) => registry[j].wndw = window
    /\ \A e \in DOMAIN run.log :
          run.log[e].fn \in AllHooks \cup {"getActual"} => run.log[e].wndw = window

CreationHooks == {"checkConditions", "getFragmentSet", "getSubFragment"}

C28_CreationBeforeExecution ==
    /\ [](run.log # <<>> =>
             /\ status = "done"
             /\ stack = <<>>
             /\ \A i \in 1 .. Len(tests.items) :
                   Cardinality({a \in Visits : calls[a].path = <<i>>}) = 1)
    /\ [][calls' # calls => (run.log = <<>> /\ run' = run)]_vars
    /\ [][run' # run => calls' = calls]_vars
    /\ [](\A c \in DOMAIN calls :
             calls[c].fn \notin {"getActual", "runComparison"} \cup AllHooks)

\* a fragment-set exported-test with getSubFragment and checkConditions: the
\* three creation-time functions were called, then a test has run
C28_Witness ==
    /\ \A h \in CreationHooks : \E c \in DOMAIN calls : calls[c].fn = h
    /\ \E e \in DOMAIN run.log : run.log[e].fn = "runComparison"

(***************************************************************************)
(* C26: the tree is only read.  No step of the construction, whether it    *)
(* ends normally or by an error, and no step of the run changes a node, a  *)
(* field or an array of the tree, and what every call in progress iterates *)
(* or was given is the array or the node as it is in the tree.             *)
(***************************************************************************)
ArrayAt(path) == IF path = <<>> THEN tests.items ELSE Kids(NodeAt(path))

FramesReadTree ==
    \A f \in DOMAIN stack :
        IF stack[f].op = "parser"
        THEN stack[f].items = ArrayAt(stack[f].path)
        ELSE stack[f].test = NodeAt(stack[f].path)

C26_TreeOnlyRead ==
    /\ [][tests' = tests]_vars
    /\ []FramesReadTree

\* a construction ended by an error after the children of a node were
\* iterated, inside the describe callbacks of two nested suites
C26_Witness ==
    /\ status = "failed"
    /\ \E a \in Visits : Len(calls[a].path) = 3
    /\ \E j \in DOMAIN registry : registry[j].kind = "describe"

(***************************************************************************)
(* C30: inside a fragment set the conditions are evaluated per             *)
(* sub-fragment.  The checkConditions of a fragment-set node is called     *)
(* once for each sub-fragment i, in order, with (sub-fragment i, window,   *)
(* i) and never with the fragment the set was made from; the children of a *)
(* fragment-set suite are visited, and the test of a fragment-set          *)
(* exported-test is created, for exactly the i where it returned a truthy  *)
(* value.  The checkConditions of a leaf test under a fragment-set suite   *)
(* is called once for each i its suite was entered for, with the fragment  *)
(* of that i (or what the leaf's getSubFragment made of it), the window    *)
(* and i.                                                                  *)
(***************************************************************************)
SetCalls == {d \in DOMAIN calls : calls[d].fn = "createFragmentSuite"}

\* the calls of checkConditions of the node at q made within the d-th call
ConditionCalls(d, q) ==
    SelectSeq(CallsOf(d), LAMBDA e : e.fn = "checkConditions" /\ e.path = q)

Gated(q) == NodeAt(q).checkConditions.type = "function"

\* the node of the d-th call was let through for the k-th fragment
PassedFor(d, k) ==
    \/ ~Gated(calls[d].path)
    \/ /\ k \in DOMAIN ConditionCalls(d, calls[d].path)
       /\ Truthy(ConditionCalls(d, calls[d].path)[k].result)

\* what was created for the k-th fragment of the d-th call: the visits of
\* the suite's children, or the test
MadeFor(d, k) ==
    {e \in DOMAIN calls :
        /\ calls[e].frag = FragmentsOf(d)[k]
        /\ calls[e].idx = k - 1
        /\ IF calls[d].arg4 = "createSuite"
           THEN calls[e].fn = "isSuite" /\ Parent(calls[e].path) = calls[d].path
           ELSE calls[e].fn = "createTest" /\ calls[e].path = calls[d].path}

ToMakeFor(d) ==
    IF calls[d].arg4 = "createSuite" THEN Len(Kids(NodeAt(calls[d].path))) ELSE 1

LeafFragment(q, frag) ==
    IF NodeAt(q).getSubFragment = "function" THEN SubFragmentOf(q, frag) ELSE frag

C30_ConditionsPerSubFragment ==
    \A d \in SetCalls :
        LET path  == calls[d].path
            frags == FragmentsOf(d)
            own   == ConditionCalls(d, path)
        IN  /\ Len(own) <= Len(frags)
            /\ \A k \in DOMAIN own :
                  /\ own[k] = HookCall("checkConditions", path, frags[k], window,
                                       k - 1, own[k].result)
                  /\ own[k].frag # calls[d].frag
            /\ (status = "done" /\ Gated(path)) => Len(own) = Len(frags)
            /\ \A k \in DOMAIN frags :
                  /\ MadeFor(d, k) # {} => PassedFor(d, k)
                  /\ (status = "done" /\ PassedFor(d, k)) =>
                        Cardinality(MadeFor(d, k)) = ToMakeFor(d)
            /\ calls[d].arg4 = "createSuite" =>
                  \A i \in DOMAIN Kids(NodeAt(path)) :
                      LET q    == Append(path, i)
                          leaf == ConditionCalls(d, q)
                      IN  (IsLeafTest(NodeAt(q)) /\ NodeAt(q).name = "string" /\ Gated(q)) =>
                              /\ \A e \in DOMAIN leaf :
                                    \E k \in DOMAIN frags :
                                        /\ PassedFor(d, k)
                                        /\ leaf[e] = HookCall("checkConditions", q,
                                                        LeafFragment(q, frags[k]),
                                                        window, k - 1, leaf[e].result)
                              /\ \A k \in DOMAIN frags :
                                    Cardinality({e \in DOMAIN leaf : leaf[e].idx = k - 1})
                                        <= 1
                              /\ status = "done" =>
                                    \A k \in DOMAIN frags :
                                        PassedFor(d, k) <=>
                                            \E e \in DOMAIN leaf : leaf[e].idx = k - 1

\* a suite with a set of two fragments and conditions true for index 0
\* only: its conditions were called for both, its leaf's for index 0 only,
\* and the one test registered is under index 0
C30_Witness ==
    /\ status = "done"
    /\ \E d \in SetCalls :
          /\ calls[d].arg4 = "createSuite"
          /\ Len(FragmentsOf(d)) = 2
          /\ Len(ConditionCalls(d, calls[d].path)) = 2
          /\ PassedFor(d, 1) /\ ~PassedFor(d, 2)
          /\ Len(ConditionCalls(d, Append(calls[d].path, 1))) = 1
          /\ \E j \in RegisteredTests : registry[j].idx = 0
          /\ Cardinality(RegisteredTests) = 1

----------------------------------------------------------------------------
(***************************************************************************)
(* The base engine: a TestParser constructed as it is, with no adapter.    *)
(* createSuite, createFragmentSuite, createInheritedSuite and createTest   *)
(* are the stubs of the base class: each writes a warning and returns.     *)
(***************************************************************************)
\* console.warn of the stub `op`, as recorded in `calls`
Warning(op, path, frag, idx) == DispatchCall("console.warn", path, frag, idx, op)

\* faulty variant: the stub of a node with children parses them
baseCreateDescends(op, test, path, frag, idx, arg4) ==
    [calls  |-> <<DispatchCall(op, path, frag, idx, arg4),
                  Warning(op, path, frag, idx)>>,
     frames |-> IF op = "createTest" THEN <<>>
                ELSE <<ParserFrame(Kids(test), path, frag, idx)>>]

\* TestParser.createSuite / createFragmentSuite / createInheritedSuite /
\* createTest: the calls made and the calls left in progress
baseCreate(op, test, path, frag, idx, arg4) ==
    [calls  |-> <<DispatchCall(op, path, frag, idx, arg4),
                  Warning(op, path, frag, idx)>>,
     frames |-> <<>>]

\* TestParser.getTest with the createTest of the base class
baseGetTest(test, path, frag, idx, wndw) ==
    LET gate == doParseTest(test.checkConditions, path, frag, wndw, idx)
        made == baseCreate("createTest", test, path, frag, idx, "none")
    IN  IF Truthy(gate.val)
        THEN [calls |-> gate.calls \o made.calls, frames |-> made.frames]
        ELSE [calls |-> gate.calls, frames |-> <<>>]

\* parser's forEach callback for the next element, in the base engine
BaseParserStep ==
    /\ status = "parsing"
    /\ Top.op = "parser"
    /\ Top.i <= Len(Top.items)
    /\ LET f    == Top
           test == f.items[f.i]
           path == Append(f.path, f.i)
           rest == Append(Below, [f EXCEPT !.i = f.i + 1])
           kind == isSuite(test)
           type == getTestType(test)
           sub  == getFragment(test, path, f.frag)
           seen == <<DispatchCall("isSuite", path, f.frag, f.idx, "none")>>
       IN  IF ~kind.ok
           THEN /\ Throw(FormatError(kind.msg))
                /\ calls' = calls \o seen
           ELSE IF kind.val
           THEN IF testSuiteType(type) = "undefined"
                THEN /\ Throw(TypeError("testSuiteType is not a function"))
                     /\ calls' = calls \o seen
                ELSE LET r == baseCreate(testSuiteType(type), test, path, f.frag,
                                         f.idx, "createSuite")
                     IN  /\ stack' = rest \o r.frames
                         /\ calls' = calls \o seen \o r.calls
                         /\ UNCHANGED <<status, error, groups>>
           ELSE IF testType(type) = "getTest"
           THEN LET r == baseGetTest(test, path, sub.val, f.idx, window)
                IN  /\ stack' = rest \o r.frames
                    /\ calls' = calls \o seen \o sub.calls \o
                          <<DispatchCall("getTest", path, sub.val, f.idx, "getTest")>>
                          \o r.calls
                    /\ UNCHANGED <<status, error, groups>>
           ELSE LET r == baseCreate(testType(type), test, path, sub.val, f.idx,
                                    "getTest")
                IN  /\ stack' = rest \o r.frames
                    /\ calls' = calls \o seen \o sub.calls \o r.calls
                    /\ UNCHANGED <<status, error, groups>>
    /\ UNCHANGED <<heap, other, run, call, ret, tests, context, window, fragment, registry>>

NextBase == Construct \/ BaseParserStep \/ ParserReturn

SpecBase == Init /\ [][NextBase]_vars

(***************************************************************************)
(* C29: in the base engine every create operation is a stub that writes a  *)
(* warning and does nothing.  Each top-level node is visited and           *)
(* dispatched once; no node below the top level is ever visited; nothing   *)
(* is registered with a framework, so that no getActual and no             *)
(* runComparison can be called; getFragmentSet is never called.            *)
(***************************************************************************)
Dispatches ==
    {"createSuite", "createFragmentSuite", "createInheritedSuite", "getTest"}

Stubs ==
    {"createSuite", "createFragmentSuite", "createInheritedSuite", "createTest"}

C29_BaseStubs ==
    /\ registry = <<>>
    /\ run = NotRunning
    /\ Len(stack) <= 1
    /\ \A c \in DOMAIN calls :
          /\ Len(calls[c].path) = 1
          /\ calls[c].fn \notin {"getFragmentSet", "getActual", "runComparison"}
          /\ calls[c].fn \in Stubs =>
                /\ c + 1 \in DOMAIN calls
                /\ calls[c + 1] = Warning(calls[c].fn, calls[c].path, calls[c].frag,
                                          calls[c].idx)
    /\ \A i \in DOMAIN tests.items :
          LET seen == {c \in Visits : calls[c].path = <<i>>}
              sent == {c \in DOMAIN calls :
                          calls[c].path = <<i>> /\ calls[c].fn \in Dispatches}
          IN  /\ Cardinality(seen) <= 1
              /\ Cardinality(sent) <= 1
              /\ status = "done" => (Cardinality(seen) = 1 /\ Cardinality(sent) = 1)

\* a fragment-set suite with a child, then an exported-test: both were
\* dispatched, the child was not visited
C29_Witness ==
    /\ status = "done"
    /\ \E c \in DOMAIN calls :
          /\ calls[c].fn = "createFragmentSuite"
          /\ calls[c].path = <<1>>
          /\ Kids(NodeAt(<<1>>)) # <<>>
    /\ \E c \in DOMAIN calls : calls[c].fn = "createTest" /\ calls[c].path = <<2>>

----------------------------------------------------------------------------
(***************************************************************************)
(* Two instances over the same tree.  JavaScript runs one call at a time:  *)
(* a second instance is constructed between two steps of the first, inside *)
(* a function the first has called or between two callbacks of its run,    *)
(* and its constructor has returned or thrown when the first goes on.  The *)
(* variables hold the instance that has the turn, `other` the one waiting. *)
(* A context also tells whether it is the page's global window.            *)
(***************************************************************************)
PublicFunctions ==
    {"createSuite", "createInheritedSuite", "createFragmentSuite", "createTest",
     "getTest", "doParseTest", "parser"}

\* _bindFunctions: bindFunctions(publicFunctions, this), no third argument
bindToConstructor == {}

\* faulty variant: every function is bound on the class, for all instances
boundToSelfNever(name, toConstructor) == FALSE

\* bindFunctions: SELF[name] = fn.bind(SELF), unless the name is listed in
\* bindToConstructor, where SELF.constructor[name] is assigned
boundToSelf(name, toConstructor) == name \notin toConstructor

\* the class fields `window = null; fragment = null` of a new instance
NewInstance(ctx) ==
    Instance(ctx, "null", <<>>, "new", NoError, <<>>, <<>>, <<>>, <<>>)

Current ==
    Instance(context, window, fragment, status, error, stack, groups, registry,
             calls)

Become(inst) ==
    /\ context' = inst.context
    /\ window' = inst.window
    /\ fragment' = inst.fragment
    /\ status' = inst.status
    /\ error' = inst.error
    /\ stack' = inst.stack
    /\ groups' = inst.groups
    /\ registry' = inst.registry
    /\ calls' = inst.calls

GlobalWindow ==
    [selfWindow |-> TRUE, document |-> TRUE, nodeType |-> "none", global |-> TRUE]

TwoContexts ==
    {GlobalWindow,
     [GlobalWindow EXCEPT !.global = FALSE],
     [selfWindow |-> FALSE, document |-> FALSE,
      nodeType |-> "DOCUMENT_FRAGMENT_NODE", global |-> FALSE],
     [selfWindow |-> FALSE, document |-> FALSE, nodeType |-> "ELEMENT_NODE",
      global |-> FALSE]}

TwoForests ==
    {<<WithKids(Suite(NoConditions, AllHooks, "absent"),
                <<Leaf("ok", Always, "function")>>), ValidLeaf>>,
     <<WithKids(SetSuite(NoConditions, AllHooks, 2),
                <<Leaf("ok", Index0, "absent")>>), ValidLeaf>>,
     <<WithKids(InheritTest(NoConditions, "function"), <<ValidLeaf>>), ValidLeaf>>,
     <<ValidLeaf, Leaf("noRunComparison", NoConditions, "absent")>>}

InitTwo ==
    /\ call = NoCall
    /\ ret = NoCall
    /\ context \in TwoContexts
    /\ tests \in {ArrayOf(f) : f \in TwoForests}
    /\ window = "null"
    /\ fragment = <<>>
    /\ status = "new"
    /\ error = NoError
    /\ stack = <<>>
    /\ groups = <<>>
    /\ registry = <<>>
    /\ calls = <<>>
    /\ run = NotRunning
    /\ other = NoOther
    /\ heap = NoHeap

\* new TestParser(tests, ctx) for a second instance, once the constructor
\* of the first has begun: the first waits
BeginSecond ==
    /\ other.turn = "first"
    /\ status # "new"
    /\ \E ctx \in TwoContexts : Become(NewInstance(ctx))
    /\ other' = [turn |-> "second", this |-> 2, when |-> status, inst |-> Current]
    /\ UNCHANGED <<heap, call, ret, tests, run>>

\* the constructor of the second instance has returned or thrown: the first
\* goes on, its operations running with the instance they are bound to
EndSecond ==
    /\ other.turn = "second"
    /\ status \in {"done", "failed"}
    /\ LET own  == \A name \in PublicFunctions : boundToSelf(name, bindToConstructor)
           this == IF own THEN other.inst ELSE Current
       IN  /\ Become([other.inst EXCEPT !.window = this.window,
                                        !.fragment = this.fragment])
           /\ other' = [turn |-> "back", this |-> IF own THEN 1 ELSE 2,
                        when |-> other.when, inst |-> Current]
    /\ UNCHANGED <<heap, call, ret, tests, run>>

\* the framework's run of what the first instance registered
RunFirst ==
    /\ other.turn # "second"
    /\ (RunHook \/ RunTest \/ ActualSettles \/ RunComparison)

NextTwo ==
    \/ Next
    \/ BeginSecond
    \/ EndSecond
    \/ RunFirst

SpecTwo == InitTwo /\ [][NextTwo]_vars

(***************************************************************************)
(* C24: two instances constructed over the same tree with equivalent but   *)
(* distinct contexts (the same kind of object: what the constructor reads  *)
(* of them is equal) make the same calls in the same order, with the same  *)
(* nodes and indices, register the same things and end the same way.       *)
(***************************************************************************)
Equivalent(a, b) ==
    /\ a.selfWindow = b.selfWindow
    /\ a.document = b.document
    /\ a.nodeType = b.nodeType

\* the first instance has the turn again and both constructors are over
BothOver == other.turn = "back" /\ status \in {"done", "failed"}

First == IF other.turn = "second" THEN other.inst ELSE Current

C27_IndependentInstances ==
    /\ other.this = IF other.turn = "second" THEN 2 ELSE 1
    /\ (status # "new" /\ ValidContext(context)) =>
          /\ FieldsAsConstructed
          /\ \A c \in DOMAIN calls :
                calls[c].fn = "checkConditions" => calls[c].wndw = window
          /\ \A j \in DOMAIN registry :
                IsCallback(registry[j]) => registry[j].wndw = window
    /\ \A e \in DOMAIN run.log :
          run.log[e].fn \in AllHooks \cup {"getActual"} =>
              /\ run.log[e].wndw = First.window
              /\ run.log[e].wndw = resolveContext(First.context).window
    /\ other.turn # "first" =>
          LET waiting == resolveContext(other.inst.context)
          IN  (other.inst.status # "new" /\ waiting.ok) =>
                  /\ other.inst.window = waiting.window
                  /\ other.inst.fragment = waiting.fragment
                  /\ \A j \in DOMAIN other.inst.registry :
                        IsCallback(other.inst.registry[j]) =>
                            other.inst.registry[j].wndw = waiting.window

\* a first instance with a window, suspended in its construction by a second
\* with a document fragment: after it, the first gave its window to a
\* checkConditions, a hook and a getActual, the second registered with null
C27_Witness ==
    /\ other.turn = "back"
    /\ other.when = "parsing"
    /\ window = "window"
    /\ other.inst.window = "null"
    /\ \E j \in DOMAIN other.inst.registry :
          other.inst.registry[j].kind = "it" /\ other.inst.registry[j].wndw = "null"
    /\ \E c \in DOMAIN calls : calls[c].fn = "checkConditions" /\ calls[c].wndw = "window"
    /\ \E e \in DOMAIN run.log : run.log[e].fn = "afterEach" /\ run.log[e].wndw = "window"
    /\ \E e \in DOMAIN run.log : run.log[e].fn = "getActual" /\ run.log[e].wndw = "window"

(***************************************************************************)
(* C31: getSubFragment resolves the fragment of exported-tests only.  The  *)
(* getSubFragment of a suite, also when it is a function, is never called: *)
(* the suite is dispatched with the fragment it was visited with, and no   *)
(* fragment given to a condition, a hook, a child or a test was made by    *)
(* the getSubFragment of a suite.                                          *)
(***************************************************************************)
IsASuite(n) == n.tests = "array"

\* no step of the fragment is the getSubFragment of a suite
NotResolvedBySuite(frag) ==
    \A k \in DOMAIN frag :
        frag[k].op = "getSubFragment" => ~IsASuite(NodeAt(frag[k].path))

C31_SuitesKeepFragment ==
    /\ \A c \in DOMAIN calls :
          /\ calls[c].fn = "getSubFragment" => ~IsASuite(NodeAt(calls[c].path))
          /\ NotResolvedBySuite(calls[c].frag)
    /\ \A j \in DOMAIN registry : NotResolvedBySuite(registry[j].frag)
    /\ \A s \in Visits :
          (IsASuite(NodeAt(calls[s].path)) /\ s + 1 \in DOMAIN calls) =>
              /\ calls[s + 1].fn \in {"createSuite", "createFragmentSuite"}
              /\ calls[s + 1].path = calls[s].path
              /\ calls[s + 1].frag = calls[s].frag
    /\ \A d \in CreateSuiteCalls :
          /\ \A j \in OwnHooks(d) : registry[j].frag = calls[d].frag
          /\ \A e \in ChildVisitsOf(d) :
                calls[d].arg4 # "false" => calls[e].frag = calls[d].frag

\* a suite whose getSubFragment is a function, with hooks and a child: its
\* hooks and its child were given the fragment of the instance
C31_Witness ==
    /\ status = "done"
    /\ \E d \in CreateSuiteCalls :
          /\ NodeAt(calls[d].path).getSubFragment = "function"
          /\ calls[d].frag = fragment
          /\ \E j \in OwnHooks(d) : registry[j].frag = fragment
          /\ \E e \in ChildVisitsOf(d) : calls[e].frag = fragment
          /\ \E j \in RegisteredTests : registry[j].frag = fragment

(***************************************************************************)
(* C32: an exported-test whose getFragmentSet returns N fragments gives N  *)
(* describe blocks labelled by the set index, each holding directly one    *)
(* test named after the exported-test, and no describe block named after   *)
(* the exported-test around them.                                          *)
(***************************************************************************)
\* the `Set index` blocks opened for the d-th call
SetIndexBlocks(d) ==
    {j \in DOMAIN registry :
        /\ registry[j].kind = "describe"
        /\ registry[j].path = calls[d].path
        /\ registry[j].set # NoIndex
        /\ \E k \in DOMAIN FragmentsOf(d) :
              registry[j].frag = FragmentsOf(d)[k] /\ registry[j].set = k - 1}

\* the tests registered directly in the block opened at j
TestsDirectlyIn(j) ==
    {e \in RegisteredTests :
        registry[e].group = Append(registry[j].group,
                                   Group(registry[j].path, registry[j].set))}

C32_SetTestNotWrapped ==
    \A d \in SetCalls :
        (/\ status = "done"
         /\ calls[d].arg4 = "getTest"
         /\ ~Gated(calls[d].path)) =>
            /\ Cardinality(SetIndexBlocks(d)) = Len(FragmentsOf(d))
            /\ \A j \in SetIndexBlocks(d) :
                  /\ Cardinality(TestsDirectlyIn(j)) = 1
                  /\ \A e \in TestsDirectlyIn(j) : registry[e].path = calls[d].path
            /\ OwnBlocks(d) = {}

(***************************************************************************)
(* C33: the index.  Whatever is reached inside iteration i of a fragment   *)
(* set, through plain and inherited suites of any depth, is given i; a     *)
(* fragment set inside it gives its own zero-based position instead; what  *)
(* is under no fragment set is given an undefined index.                   *)
(***************************************************************************)
IsSetNode(n) == n.getFragmentSet = "function"

\* the fragment sets the c-th call is inside of: the sets above its node,
\* and its node when the call is one made per fragment
EnclosingSets(c) ==
    {q \in UpTo(calls[c].path) :
        /\ IsSetNode(NodeAt(q))
        /\ q # calls[c].path \/ calls[c].fn \notin {"isSuite", "createFragmentSuite"}}

Innermost(qs) == CHOOSE q \in qs : \A r \in qs : Len(r) <= Len(q)

\* the iteration of the set of the node at q the fragment was made in
IterationOf(frag, q) ==
    LET at == {k \in DOMAIN frag : frag[k].op = "getFragmentSet" /\ frag[k].path = q}
    IN  IF at = {} THEN NoIndex ELSE frag[CHOOSE k \in at : TRUE].i

IndexExpected(path, frag, sets) ==
    IF sets = {} THEN NoIndex ELSE IterationOf(frag, Innermost(sets))

C33_IndexPropagation ==
    /\ \A c \in DOMAIN calls :
          calls[c].fn \in Dispatches \cup {"isSuite", "createTest", "checkConditions"} =>
              /\ calls[c].idx = IndexExpected(calls[c].path, calls[c].frag,
                                              EnclosingSets(c))
              /\ EnclosingSets(c) # {} => calls[c].idx \in 0 .. MaxFrags
    /\ \A j \in RegisteredTests :
          LET sets == {q \in UpTo(registry[j].path) : IsSetNode(NodeAt(q))}
          IN  registry[j].idx = IndexExpected(registry[j].path, registry[j].frag, sets)

\* in the second iteration of a fragment-set suite, a fragment-set
\* exported-test was created for its own first fragment with index 0, its
\* conditions having been called with its own index 1 too
C33_Witness ==
    /\ \E c \in DOMAIN calls :
          /\ calls[c].fn = "createTest"
          /\ Len(calls[c].path) = 2
          /\ IterationOf(calls[c].frag, <<1>>) = 1
          /\ IsSetNode(NodeAt(calls[c].path))
          /\ calls[c].idx = 0
    /\ \E c \in DOMAIN calls :
          /\ calls[c].fn = "checkConditions"
          /\ Len(calls[c].path) = 2
          /\ calls[c].idx = 1

(***************************************************************************)
(* C34: parser calls createSuite(node, fragment, index, createSuite): the  *)
(* fourth argument is a function, so that a plain suite let through by its *)
(* conditions gets a describe block of its own with its setup and cleanup. *)
(* Only createFragmentSuite calls createSuite with false: then no block is *)
(* opened and no hook registered by that call, and the children are        *)
(* traversed directly inside the `Set index` block.                        *)
(***************************************************************************)
\* the d-th call was made by parser for the node it had just visited
ByParser(d) ==
    /\ d - 1 \in Visits
    /\ calls[d - 1].path = calls[d].path
    /\ calls[d - 1].frag = calls[d].frag

\* the tests of the leaf children of the node of the d-th call, registered
\* for it
ChildTests(d) ==
    {j \in RegisteredTests :
        /\ Parent(registry[j].path) = calls[d].path
        /\ IsLeafTest(NodeAt(registry[j].path))
        /\ IsPrefix(calls[d].frag, registry[j].frag)}

InnermostGroup(j) == registry[j].group[Len(registry[j].group)]

C34_SetupCleanupFlag ==
    \A d \in CreateSuiteCalls :
        LET test == NodeAt(calls[d].path)
        IN  /\ calls[d].arg4 \in {"createSuite", "false"}
            /\ calls[d].arg4 = "createSuite" <=> ByParser(d)
            /\ calls[d].arg4 = "false" <=>
                  \E s \in SetCalls :
                      /\ s < d
                      /\ calls[s].path = calls[d].path
                      /\ calls[s].arg4 = "createSuite"
                      /\ \E k \in DOMAIN FragmentsOf(s) :
                            calls[d].frag = FragmentsOf(s)[k] /\ calls[d].idx = k - 1
            /\ (ByParser(d) /\ Entered(d) /\ GatePassed(d)) =>
                  /\ Cardinality(OwnBlocks(d)) = 1
                  /\ \A h \in test.hooks \cap {"beforeAll", "beforeEach"} :
                        \E j \in OwnHooks(d) : registry[j].kind = h
                  /\ status = "done" =>
                        \A h \in test.hooks : \E j \in OwnHooks(d) : registry[j].kind = h
                  /\ \A j \in ChildTests(d) :
                        InnermostGroup(j) = Group(calls[d].path, NoIndex)
            /\ ~ByParser(d) =>
                  /\ OwnBlocks(d) = {}
                  /\ OwnHooks(d) = {}
                  /\ \A j \in ChildTests(d) :
                        InnermostGroup(j) = Group(calls[d].path, calls[d].idx)

\* a plain suite with hooks and a fragment-set suite, each with a test: the
\* first has its block and its four hooks, the test of the second is
\* directly in a `Set index` block
C34_Witness ==
    /\ status = "done"
    /\ \E d \in CreateSuiteCalls :
          /\ ByParser(d)
          /\ GatePassed(d)
          /\ Cardinality(OwnHooks(d)) = 4
          /\ ChildTests(d) # {}

C34_WitnessSet ==
    /\ status = "done"
    /\ \E d \in CreateSuiteCalls :
          /\ calls[d].arg4 = "false"
          /\ calls[d].idx = 1
          /\ \E j \in ChildTests(d) : InnermostGroup(j) = Group(calls[d].path, 1)

(***************************************************************************)
(* C35: for a leaf test the conditions are evaluated before the format is  *)
(* checked.  A leaf test without getActual or runComparison whose          *)
(* checkConditions returns a falsy value is skipped: createTest is not     *)
(* called and no error is raised.  The FormatError of createTest is raised *)
(* only once the conditions have let the test through.                     *)
(***************************************************************************)
InvalidTestFormat == FormatError("Invalid Exported Tests test format")

C35_GateBeforeFormat ==
    /\ \A d \in GetTestCalls :
          LET test == NodeAt(calls[d].path)
          IN  (~WellFormedTest(test) /\ Gated(calls[d].path) /\ GateFollows(d)) =>
                  IF Truthy(calls[d + 1].result)
                  THEN /\ status = "failed"
                       /\ error = InvalidTestFormat
                       /\ CreatedBy(d) = {d + 2}
                       /\ Len(calls) = d + 2
                  ELSE /\ CreatedBy(d) = {}
                       /\ Len(calls) = d + 1 => (status # "failed" /\ error = NoError)
    /\ error = InvalidTestFormat =>
          /\ calls[Len(calls)].fn = "createTest"
          /\ ~WellFormedTest(NodeAt(calls[Len(calls)].path))
          /\ \E d \in GetTestCalls :
                /\ CreatedBy(d) = {Len(calls)}
                /\ GatePassed(d)

\* a test without getActual whose conditions return false, then a second
\* test: the first was skipped, the second registered, the construction
\* ended normally
C35_Witness ==
    /\ status = "done"
    /\ \E d \in GetTestCalls :
          /\ NodeAt(calls[d].path).getActual # "function"
          /\ GateFollows(d)
          /\ ~Truthy(calls[d + 1].result)
          /\ CreatedBy(d) = {}
    /\ RegisteredTests # {}

(***************************************************************************)
(* C36: an exported-test with a callable getFragmentSet and an array of    *)
(* inheritedTests is a fragment set and nothing else: parser dispatches it *)
(* to createFragmentSuite with getTest, createInheritedSuite is never      *)
(* called for it, its inheritedTests are never visited, and getTest is     *)
(* called for it once per fragment, failing with the FormatError of        *)
(* createTest when it lacks getActual or runComparison.                    *)
(***************************************************************************)
IsSetAndInherit(n) ==
    /\ n.tests = "absent"
    /\ n.name = "string"
    /\ n.getFragmentSet = "function"
    /\ n.inheritedTests = "array"

C36_SetBeforeInherit ==
    \A s \in Visits :
        LET path == calls[s].path
            test == NodeAt(path)
            d    == IF test.getSubFragment = "function" THEN s + 2 ELSE s + 1
        IN  IsSetAndInherit(test) =>
                /\ \A c \in DOMAIN calls :
                      /\ calls[c].path = path =>
                            calls[c].fn \notin {"createInheritedSuite", "createSuite"}
                      /\ ~(Len(calls[c].path) > Len(path) /\ IsPrefix(path, calls[c].path))
                /\ d \in DOMAIN calls =>
                      /\ calls[d].fn = "createFragmentSuite"
                      /\ calls[d].path = path
                      /\ calls[d].arg4 = "getTest"
                      /\ IsPrefix(PerFragmentCalls(d), PerFragmentExpected(d))
                      /\ (~WellFormedTest(test) /\ ~Gated(path) /\ PerFragmentCalls(d) # <<>>)
                            => (status = "failed" /\ error = InvalidTestFormat)
                      /\ (status = "done" /\ WellFormedTest(test) /\ ~Gated(path)) =>
                            Cardinality({j \in RegisteredTests :
                                            /\ registry[j].path = path
                                            /\ IsPrefix(calls[d].frag, registry[j].frag)})
                                = test.nfrags

\* such an exported-test with two fragments: two tests of its own registered,
\* nothing of its inheritedTests
C36_Witness ==
    /\ status = "done"
    /\ \E s \in Visits :
          /\ IsSetAndInherit(NodeAt(calls[s].path))
          /\ NodeAt(calls[s].path).inherited # <<>>
          /\ Cardinality({j \in RegisteredTests : registry[j].path = calls[s].path}) = 2
          /\ Cardinality(RegisteredTests) = 2

(***************************************************************************)
(* C37: the checkConditions of an exported-test of type `inherit` is never *)
(* called.  Whatever it would return, createInheritedSuite opens a         *)
(* describe block for the node and every element of its inheritedTests is  *)
(* visited inside it.                                                      *)
(***************************************************************************)
IsInheritTest(n) ==
    /\ n.tests = "absent"
    /\ n.name = "string"
    /\ n.getFragmentSet # "function"
    /\ n.inheritedTests = "array"

----------------------------------------------------------------------------
(***************************************************************************)
(* The construction under fairness: the constructor is synchronous code,   *)
(* and a step that can be taken is taken.  The user's functions return and *)
(* getFragmentSet returns a finite array (at most MaxFrags fragments).     *)
(***************************************************************************)
SpecLive == Init /\ [][Next]_vars /\ WF_vars(Next)

(***************************************************************************)
(* C38: the construction terminates, normally or by an error, and until    *)
(* then every node is visited and dispatched once for each fragment it is  *)
(* reached with (once per iteration of the fragment sets around it).       *)
(***************************************************************************)
Over == status \in {"done", "failed"}

OncePerIteration ==
    \A a \in DOMAIN calls, b \in DOMAIN calls :
        (/\ calls[a].fn \in Dispatches \cup {"isSuite", "createTest"}
         /\ calls[a].fn = calls[b].fn
         /\ calls[a].path = calls[b].path
         /\ calls[a].frag = calls[b].frag) => a = b

C38_ConstructionTerminates ==
    /\ <>Over
    /\ [](Over => stack = <<>>)
    /\ []OncePerIteration

\* a finished construction in which a test inside a fragment-set suite was
\* visited once for each of the two fragments
C38_Witness ==
    /\ status = "done"
    /\ \E a \in Visits, b \in Visits :
          /\ a < b
          /\ calls[a].path = calls[b].path
          /\ Len(calls[a].path) = 2
          /\ calls[a].idx = 0 /\ calls[b].idx = 1

----------------------------------------------------------------------------
(***************************************************************************)
(* bindFunctions, on the fixture of its tests: a class whose constructor   *)
(* sets instanceProperty and calls bindFunctions(functionObj, this,        *)
(* bindToConstructor); every method returns this.instanceProperty.         *)
(***************************************************************************)
MaxInstances == 2

PropertyValues == {"foo", "bar"}

\* faulty variant: every function is bound on the instance, whatever
\* bindToConstructor lists
bindFunctionsOnInstance(functionObj, self, toConstructor, h) ==
    [h EXCEPT !.own[self] = [n \in Names |-> IF n \in functionObj THEN self ELSE @[n]]]

\* bindFunctions(functionObj, classInstance, bindToConstructor): for each
\* key, SELF.constructor[name] or SELF[name] = functionObj[name].bind(SELF)
bindFunctions(functionObj, self, toConstructor, h) ==
    [h EXCEPT
        !.own[self] = [n \in Names |->
                          IF n \in functionObj /\ boundToSelf(n, toConstructor)
                          THEN self ELSE @[n]],
        !.ctor = [n \in Names |->
                     IF n \in functionObj /\ ~boundToSelf(n, toConstructor)
                     THEN self ELSE @[n]]]

\* the function found under `name` on the instance `holder`, or on the
\* constructor (holder 0): the instance it is bound to
BoundAt(h, holder, name) ==
    IF holder = 0 THEN h.ctor[name] ELSE h.own[holder][name]

InitBind ==
    /\ call = NoCall
    /\ ret = NoCall
    /\ context = WindowContext
    /\ tests = EmptyTests
    /\ window = "null"
    /\ fragment = <<>>
    /\ status = "new"
    /\ error = NoError
    /\ stack = <<>>
    /\ groups = <<>>
    /\ registry = <<>>
    /\ calls = <<>>
    /\ run = NotRunning
    /\ other = NoOther
    /\ \E fobj \in (SUBSET Names) \ {{}}, toc \in SUBSET Names :
          heap = Heap(fobj, toc, <<>>, <<>>, [n \in Names |-> 0])

\* new Fixture(): the property is set, then bindFunctions is called
NewFixture ==
    /\ Len(heap.props) < MaxInstances
    /\ \E v \in PropertyValues :
          LET self == Len(heap.props) + 1
              made == [heap EXCEPT !.props = Append(@, v),
                                   !.own = Append(@, [n \in Names |-> 0])]
          IN  /\ heap' = bindFunctions(heap.functionObj, self, heap.toConstructor, made)
              /\ call' = [fn |-> "bindFunctions", self |-> self]
    /\ UNCHANGED <<ret, tests, context, window, fragment, status, error, stack,
                   groups, registry, calls, run, other>>

\* const f = holder[name]; f(): the function is called detached from the
\* object it was read from, and returns the property of the instance it is
\* bound to
InvokeDetached ==
    /\ \E holder \in 0 .. Len(heap.props), name \in Names :
          /\ BoundAt(heap, holder, name) # 0
          /\ call' = [fn |-> name, holder |-> holder]
          /\ ret' = [fn |-> name, holder |-> holder, made |-> Len(heap.props),
                     val |-> heap.props[BoundAt(heap, holder, name)]]
    /\ UNCHANGED <<heap, tests, context, window, fragment, status, error, stack,
                   groups, registry, calls, run, other>>

NextBind == NewFixture \/ InvokeDetached

SpecBind == InitBind /\ [][NextBind]_vars

(***************************************************************************)
(* C39: after bindFunctions every name of functionObj is a function bound  *)
(* to the instance: an own property of the instance, or a property of its  *)
(* constructor when bindToConstructor lists the name.  Called detached it  *)
(* reads the property of the instance it is bound to.  A function bound on *)
(* the constructor is the same for all instances and is bound to the       *)
(* instance constructed last.                                              *)
(***************************************************************************)
C39_BindFunctions ==
    LET made == Len(heap.props)
    IN  /\ \A i \in 1 .. made, n \in Names :
              heap.own[i][n] =
                  IF n \in heap.functionObj \ heap.toConstructor THEN i ELSE 0
        /\ \A n \in Names :
              heap.ctor[n] =
                  IF n \in heap.functionObj \cap heap.toConstructor THEN made ELSE 0
        /\ ret # NoCall =>
              /\ ret.fn \in heap.functionObj
              /\ IF ret.holder = 0
                 THEN /\ ret.fn \in heap.toConstructor
                      /\ ret.val = heap.props[ret.made]
                 ELSE /\ ret.fn \notin heap.toConstructor
                      /\ ret.val = heap.props[ret.holder]

\* two instances with different properties: the static method, read from
\* the constructor and called, returned the property of the second, while
\* the first still has its own instance method
C39_Witness ==
    /\ Len(heap.props) = 2
    /\ heap.props[1] # heap.props[2]
    /\ ret # NoCall
    /\ ret.holder = 0
    /\ ret.made = 2
    /\ ret.val = heap.props[2]
    /\ heap.own[1]["myInstanceMethod"] = 1

====
